---- MODULE Spec2Model ----
(***************************************************************************)
(* A model of hoplight: the Noun value and its canonical serialization     *)
(* (vm/src/noun.rs, serialize.rs, deserialize.rs), the metered evaluator   *)
(* (vm/src/eval.rs with axis.rs, equal.rs, shape.rs, math.rs, ticks.rs),   *)
(* the surface compiler (lisp/src/compile.rs) and the stream transport     *)
(* (src/agent.rs, stream.rs, expected_packet_set.rs, content_packet.rs).   *)
(*                                                                         *)
(* Bytes are the integers 0..255.  A Noun is one of three records, one per *)
(* variant of the Rust enum, so that the two atom representations stay     *)
(* distinct values as they are in the program:                             *)
(*   [t |-> "SmallAtom", value |-> <<b0,b1,b2,b3>>, length |-> n]          *)
(*   [t |-> "Atom", xs |-> <<bytes>>]                                      *)
(*   [t |-> "Cell", a |-> left, b |-> right]                               *)
(* A Result is [ok |-> TRUE, v |-> value] or [ok |-> FALSE, e |-> kind].   *)
(***************************************************************************)
EXTENDS Integers, Sequences, FiniteSets, TLC

VARIABLES
    \* serialize / deserialize harness
    ser_pc,         \* "start" | "serialized" | "deserialized" | "idle"
    ser_noun,       \* the Noun handed to serialize
    ser_max,        \* maximum_atom_encoding_length handed to serialize
    ser_buf,        \* Result of serialize (bytes)
    ser_back,       \* Result of deserialize on those bytes
    ser_again,      \* Result of serialize on the Noun deserialize gave
    \* evaluator harness: one side effect engine, evaluations run on it
    ev_pc,          \* "ready" | "done" | "idle"
    ev_kind,        \* which family the last expression came from
    ev_expr,        \* the expression [subject formula] handed to eval
    ev_limit,       \* its tick_limit
    ev_result,      \* the EvalResult
    ev_storage,     \* the engine's storage, a set of <<key, value>>
    ev_ticks,       \* ticks_remaining when eval returned
    ev_max_depth,   \* history: deepest nesting of eval_on invocations
    ev_underflow,   \* history: some incur was refused
    ev_stored,      \* history: the values STORE_BY_HASH was run on
    ev_arg,         \* the parameter the expression was built from
    \* compiler harness
    lisp_pc,        \* "ready" | "done" | "idle"
    lisp_kind,      \* which program was run
    lisp_arg,       \* the parameters the program was built from
    lisp_result,    \* what running it gave
    \* transport harness
    net_pc,         \* "start" | "handshake" | "ready" | "sent" | "exchanged" | "idle"
    net_agents,     \* the Agents a and b, by name
    net_sender,     \* the name of the agent that initiated and sends
    net_rounds,     \* exchange rounds of the handshake done
    net_sent,       \* history: payloads handed to send_to so far
    net_handed,     \* history: the payloads sent since the tasks were drained
    net_stray,      \* the stray packet handled last, with the agent before it
    \* stream cluster harness
    cl_pc,          \* "ready" | "panicked" | "idle"
    cl_clusters,    \* the StreamCluster each endpoint keeps for the other
    cl_upcoming,    \* the ExpectedPacketSet of each endpoint
    cl_wire,        \* the packet produced and not yet looked at, if any
    cl_sent,        \* history: the packets produced so far
    cl_last,        \* the last call made and what it returned
    cl_pushes,      \* history: seeds and key materials pushed so far
    \* content packet harness
    pk_pc,          \* "buffer" | "prepared" | "decoded" | "idle"
    pk_in,          \* buffer length, payload length and the number drawn
    pk_packet,      \* Result of prepare, with the payload and checksum written
    pk_back         \* Result of decode on that packet

ser_vars == <<ser_pc, ser_noun, ser_max, ser_buf, ser_back, ser_again>>

ev_vars == <<ev_pc, ev_kind, ev_expr, ev_limit, ev_result, ev_storage, ev_ticks,
             ev_max_depth, ev_underflow, ev_stored, ev_arg>>

lisp_vars == <<lisp_pc, lisp_kind, lisp_arg, lisp_result>>

net_vars == <<net_pc, net_agents, net_sender, net_rounds, net_sent, net_handed, net_stray>>

cl_vars == <<cl_pc, cl_clusters, cl_upcoming, cl_wire, cl_sent, cl_last, cl_pushes>>

pk_vars == <<pk_pc, pk_in, pk_packet, pk_back>>

vars == <<ser_vars, ev_vars, lisp_vars, net_vars, cl_vars, pk_vars>>

(***************************************************************************)
(* Results.                                                                *)
(***************************************************************************)
Ok(v) == [ok |-> TRUE, v |-> v]
Err(e) == [ok |-> FALSE, e |-> e]
None == [some |-> FALSE]
Some(v) == [some |-> TRUE, v |-> v]
NoResult == [ok |-> FALSE, e |-> "not run"]

\* let name = value; rest: the value is computed once and handed on.
Bind(value, rest(_)) == CHOOSE v \in {rest(once) : once \in {value}} : TRUE

\* let name = result?; rest: an Err is returned as it is, an Ok goes on.
Try(result, rest(_)) ==
    CHOOSE v \in {IF once.ok THEN rest(once) ELSE once : once \in {result}} : TRUE

Max(x, y) == IF x >= y THEN x ELSE y
Min(x, y) == IF x <= y THEN x ELSE y

RECURSIVE Pow2(_)
Pow2(k) == IF k = 0 THEN 1 ELSE 2 * Pow2(k - 1)

Reverse(s) == [i \in 1..Len(s) |-> s[Len(s) + 1 - i]]

Take(s, n) == SubSeq(s, 1, n)
Drop(s, n) == SubSeq(s, n + 1, Len(s))

(***************************************************************************)
(* vm/src/noun.rs                                                          *)
(***************************************************************************)
SmallAtom(value, length) == [t |-> "SmallAtom", value |-> value, length |-> length]
Atom(xs) == [t |-> "Atom", xs |-> xs]
new_cell(left, right) == [t |-> "Cell", a |-> left, b |-> right]

is_cell(n) == n.t = "Cell"

from_u8(source) == SmallAtom(<<source, 0, 0, 0>>, 1)

from_small_slice(source) ==
    SmallAtom([i \in 1..4 |-> IF i <= Len(source) THEN source[i] ELSE 0], Len(source))

from_vec(source) ==
    IF Len(source) <= 4 THEN from_small_slice(source) ELSE Atom(source)

from_slice(source) ==
    IF Len(source) <= 4 THEN from_small_slice(source) ELSE from_vec(source)

\* as_kind / as_bytes: the byte slice of an atom (value[0..length] of a small one).
as_bytes(n) == IF n.t = "SmallAtom" THEN Take(n.value, n.length) ELSE n.xs

atom_len(n) ==
    IF n.t = "SmallAtom" THEN Some(n.length)
    ELSE IF n.t = "Atom" THEN Some(Len(n.xs)) ELSE None

\* The loop of from_usize_compact before bs.reverse(): low byte first.
RECURSIVE low_bytes_first(_)
low_bytes_first(source) ==
    IF source = 0 THEN <<>>
    ELSE <<source % 256>> \o low_bytes_first(source \div 256)

from_usize_compact(source) == from_vec(Reverse(low_bytes_first(source)))

from_u64_compact(source) == from_vec(Reverse(low_bytes_first(source)))

\* The little-endian value of a byte sequence (u32::from_le_bytes, and the
\* accumulation loop of as_usize).
RECURSIVE le_value(_)
le_value(bs) ==
    IF Len(bs) = 0 THEN 0 ELSE bs[1] + 256 * le_value(Drop(bs, 1))

\* as_usize on a 64-bit target.  For Noun::Atom the overflow_tester 0xff is
\* shifted left by 8 per byte and is 0 from the ninth byte on, so a non-zero
\* byte at index 8 or later gives None.
as_usize(n) ==
    IF n.t = "Cell" THEN None
    ELSE IF n.t = "SmallAtom" THEN Some(le_value(n.value))
    ELSE IF \E i \in 9..Len(n.xs) : n.xs[i] # 0 THEN None
    ELSE Some(le_value(Take(n.xs, Min(Len(n.xs), 8))))

\* impl PartialEq for Noun
RECURSIVE NounEq(_, _)
NounEq(x, y) ==
    IF x.t = "Cell" /\ y.t = "Cell" THEN NounEq(x.a, y.a) /\ NounEq(x.b, y.b)
    ELSE IF x.t = "SmallAtom" /\ y.t = "SmallAtom"
        THEN x.value = y.value /\ x.length = y.length
    ELSE IF x.t = "Atom" /\ y.t = "Atom" THEN x.xs = y.xs
    ELSE FALSE

(***************************************************************************)
(* vm/src/serialize.rs                                                     *)
(***************************************************************************)
BitVec_new == [bytes |-> <<>>, write_bit |-> 0]

SetBit(byte, k) == IF (byte \div Pow2(k)) % 2 = 1 THEN byte ELSE byte + Pow2(k)

BitVec_push(bv, value) ==
    LET bytes1 == IF bv.write_bit = 0 THEN Append(bv.bytes, 0) ELSE bv.bytes
        last_idx == Len(bytes1)
        bytes2 == IF value
                    THEN [bytes1 EXCEPT ![last_idx] = SetBit(@, bv.write_bit)]
                    ELSE bytes1
    IN  [bytes |-> bytes2, write_bit |-> (bv.write_bit + 1) % 8]

Serializer_new(maximum_atom_encoding_length) ==
    [atom_encoding |-> <<>>, structure |-> BitVec_new,
     maximum_atom_encoding_length |-> maximum_atom_encoding_length,
     err |-> "none"]

\* The 7-bit little-endian length that follows a 0xff tag.
RECURSIVE long_length(_)
long_length(remaining_len) ==
    IF remaining_len >= 128
        THEN <<(remaining_len % 128) + 128>> \o long_length(remaining_len \div 128)
        ELSE <<remaining_len>>

serialize_atom(s, atom_bytes) ==
    LET len == Len(atom_bytes)
        max == s.maximum_atom_encoding_length
    IN  IF len = 1 /\ atom_bytes[1] < 190
        THEN IF Len(s.atom_encoding) >= max
                THEN [s EXCEPT !.err = "MaximumLengthExceeded"]
                ELSE [s EXCEPT !.atom_encoding = Append(@, atom_bytes[1])]
        ELSE LET tagged == IF len <= 64
                            THEN Append(s.atom_encoding, len + 190)
                            ELSE Append(s.atom_encoding, 255) \o long_length(len)
             IN  IF len >= max \/ Len(tagged) >= max - len
                    THEN [s EXCEPT !.atom_encoding = tagged,
                                   !.err = "MaximumLengthExceeded"]
                    ELSE [s EXCEPT !.atom_encoding = tagged \o atom_bytes]

RECURSIVE serialize_noun(_, _)
serialize_noun(s, noun) ==
    IF s.err # "none" THEN s
    ELSE IF noun.t = "Cell"
        THEN LET s1 == [s EXCEPT !.structure = BitVec_push(@, TRUE)]
                 s2 == serialize_noun(s1, noun.a)
             IN  IF s2.err # "none" THEN s2 ELSE serialize_noun(s2, noun.b)
        ELSE serialize_atom([s EXCEPT !.structure = BitVec_push(@, FALSE)],
                            as_bytes(noun))

serialize(noun, maximum_atom_encoding_length) ==
    Bind(serialize_noun(Serializer_new(maximum_atom_encoding_length), noun),
         LAMBDA serializer :
    IF serializer.err # "none" THEN Err(serializer.err)
    ELSE Bind(serialize_noun(Serializer_new(10),
                             from_usize_compact(Len(serializer.atom_encoding))),
              LAMBDA length_encoder :
         IF length_encoder.err # "none" THEN Err(length_encoder.err)
         ELSE Ok(length_encoder.atom_encoding \o serializer.atom_encoding
                     \o serializer.structure.bytes)))

(***************************************************************************)
(* vm/src/deserialize.rs.  A Deserializer is                               *)
(* [atom_buffer, structure_buffer, structure_bit_pos]; each method returns *)
(* a Result together with the Deserializer it leaves (field d).            *)
(***************************************************************************)
consume_byte(d) ==
    IF Len(d.atom_buffer) > 0
        THEN [ok |-> TRUE, v |-> d.atom_buffer[1],
              d |-> [d EXCEPT !.atom_buffer = Drop(@, 1)]]
        ELSE Err("UnexpectedEndOfAtomStream")

consume_structure_bit(d) ==
    IF Len(d.structure_buffer) = 0 THEN Err("UnexpectedEndOfStructureStream")
    ELSE LET ret == (d.structure_buffer[1] \div Pow2(d.structure_bit_pos)) % 2 # 0
             pos == d.structure_bit_pos + 1
         IN  [ok |-> TRUE, v |-> ret,
              d |-> IF pos = 8
                      THEN [d EXCEPT !.structure_buffer = Drop(@, 1),
                                     !.structure_bit_pos = 0]
                      ELSE [d EXCEPT !.structure_bit_pos = pos]]

\* The loop reading the length after a 0xff tag; k counts the bytes read so
\* far.  shift_sentinel is 0x7f << 7k in a 64-bit usize: it first loses bits
\* at k = 9, which is where (shift_sentinel >> 7) != previous_shift_sentinel.
RECURSIVE read_long_length(_, _, _)
read_long_length(d, length, k) ==
    Try(consume_byte(d), LAMBDA b :
    IF k >= 9 THEN Err("OverlongAtom")
    ELSE IF b.v < 128
        THEN [ok |-> TRUE, v |-> length + (b.v % 128) * Pow2(7 * k), d |-> b.d]
    ELSE read_long_length(b.d, length + (b.v % 128) * Pow2(7 * k), k + 1))

deserialize_atom(d) ==
    Try(consume_byte(d), LAMBDA kind :
    IF kind.v < 190 THEN [ok |-> TRUE, v |-> from_u8(kind.v), d |-> kind.d]
    ELSE Try(IF kind.v # 255
                THEN [ok |-> TRUE, v |-> kind.v - 190, d |-> kind.d]
                ELSE read_long_length(kind.d, 0, 0),
             LAMBDA length :
         IF Len(length.d.atom_buffer) < length.v
            THEN Err("UnexpectedEndOfAtomStream")
         ELSE [ok |-> TRUE,
               v |-> from_slice(Take(length.d.atom_buffer, length.v)),
               d |-> [length.d EXCEPT !.atom_buffer = Drop(@, length.v)]]))

RECURSIVE deserialize_noun(_)
deserialize_noun(d) ==
    Try(consume_structure_bit(d), LAMBDA cell_bit :
    IF cell_bit.v
        THEN Try(deserialize_noun(cell_bit.d), LAMBDA left :
             Try(deserialize_noun(left.d), LAMBDA right :
             [ok |-> TRUE, v |-> new_cell(left.v, right.v), d |-> right.d]))
        ELSE deserialize_atom(cell_bit.d))

check_exhausted(d) ==
    IF Len(d.atom_buffer) > 0 THEN Err("UnexpectedContinuationOfStream")
    ELSE IF Len(d.structure_buffer) > 1
            \/ (Len(d.structure_buffer) = 1 /\ d.structure_bit_pos = 0)
        THEN Err("UnexpectedContinuationOfStream")
    ELSE Ok(TRUE)

deserialize(buf) ==
    Try(deserialize_atom([atom_buffer |-> buf, structure_buffer |-> <<>>,
                          structure_bit_pos |-> 0]),
        LAMBDA first :
    Bind(as_usize(first.v), LAMBDA length :
    IF ~length.some THEN Err("InvalidAtomStreamLength")
    ELSE IF length.v > Len(first.d.atom_buffer) THEN Err("InvalidAtomStreamLength")
    ELSE Try(deserialize_noun(
                 [atom_buffer |-> Take(first.d.atom_buffer, length.v),
                  structure_buffer |-> Drop(first.d.atom_buffer, length.v),
                  structure_bit_pos |-> 0]),
             LAMBDA result :
         Try(check_exhausted(result.d), LAMBDA done : Ok(result.v)))))

(***************************************************************************)
(* vm/src/ticks.rs and the Computation of vm/src/eval.rs.  A Computation   *)
(* is [ticks, storage, random_calls, max_depth, underflow]: ticks is       *)
(* Ticks.count; storage is the side effect engine's key/value map as a set *)
(* of <<key, value>> pairs; random_calls counts the bytes drawn from the   *)
(* engine's generator.  max_depth and underflow are history fields: the    *)
(* deepest nesting of eval_on invocations so far, and whether some incur   *)
(* was refused.                                                            *)
(***************************************************************************)
Computation(tick_limit, storage) ==
    [ticks |-> tick_limit, storage |-> storage, random_calls |-> 0,
     max_depth |-> 0, underflow |-> FALSE]

\* Ticks::incur: checked_sub, the count is left alone when it would underflow.
incur(c, count) ==
    IF c.ticks >= count
        THEN [ok |-> TRUE, c |-> [c EXCEPT !.ticks = @ - count]]
        ELSE [ok |-> FALSE, c |-> [c EXCEPT !.underflow = TRUE]]

\* A finished step of the computation: a value or an error, with the
\* Computation it leaves.
Done(c, v) == [ok |-> TRUE, v |-> v, c |-> c]
Fail(c, e) == [ok |-> FALSE, e |-> e, c |-> c]

\* self.ticks.incur(count)?; rest: the refusal is TickLimitExceeded.
incur_then(c, count, rest(_)) ==
    Bind(incur(c, count), LAMBDA t :
    IF t.ok THEN rest(t.c) ELSE Fail(t.c, "TickLimitExceeded"))

from_bool(source) == from_u8(IF source THEN 1 ELSE 0)

as_u8(n) ==
    IF n.t = "Cell" THEN None
    ELSE IF n.t = "SmallAtom"
        THEN IF le_value(n.value) <= 255 THEN Some(le_value(n.value)) ELSE None
    ELSE IF \E i \in 2..Len(n.xs) : n.xs[i] # 0 THEN None
    ELSE IF Len(n.xs) = 0 THEN None
    ELSE Some(n.xs[1])

into_vec(n) == IF n.t = "Cell" THEN None ELSE Some(as_bytes(n))

\* impl AsNoun for &[u8]: always the Atom variant, whatever the length.
slice_as_noun(bs) == Atom(bs)

(***************************************************************************)
(* vm/src/equal.rs                                                         *)
(***************************************************************************)
\* A variant that compares the tails of two cells whatever the heads gave.
RECURSIVE equal_both_halves(_, _, _)
equal_both_halves(a, b, c) ==
    incur_then(c, 1, LAMBDA c1 :
    IF a.t = "Cell" /\ b.t = "Cell"
        THEN Bind(equal_both_halves(a.a, b.a, c1), LAMBDA l :
             IF ~l.ok THEN l
             ELSE Bind(equal_both_halves(a.b, b.b, l.c), LAMBDA r :
                  IF ~r.ok THEN r ELSE Done(r.c, l.v /\ r.v)))
    ELSE IF a.t = "SmallAtom" /\ b.t = "SmallAtom"
        THEN Done(c1, a.value = b.value /\ a.length = b.length)
    ELSE IF a.t = "Atom" /\ b.t = "Atom" THEN Done(c1, a.xs = b.xs)
    ELSE Done(c1, FALSE))

RECURSIVE equal(_, _, _)
equal(a, b, c) ==
    incur_then(c, 1, LAMBDA c1 :
    IF a.t = "Cell" /\ b.t = "Cell"
        THEN Bind(equal(a.a, b.a, c1), LAMBDA l :
             IF ~l.ok \/ ~l.v THEN l ELSE equal(a.b, b.b, l.c))
    ELSE IF a.t = "SmallAtom" /\ b.t = "SmallAtom"
        THEN Done(c1, a.value = b.value /\ a.length = b.length)
    ELSE IF a.t = "Atom" /\ b.t = "Atom" THEN Done(c1, a.xs = b.xs)
    ELSE Done(c1, FALSE))

(***************************************************************************)
(* vm/src/axis.rs.  An iterator is modelled by the sequence of bits it     *)
(* yields.  impl Axis for Noun names a one-byte variant ByteAtom and the   *)
(* variant Atom; here every atom goes through the byte slice iterator over *)
(* its bytes, which for a one-byte atom yields ByteBitIterator::new(x).    *)
(***************************************************************************)
ByteBitIterator(data) == [i \in 1..8 |-> (data \div Pow2(8 - i)) % 2 = 1]

\* A variant that takes the bytes first to last instead of last to first.
RECURSIVE first_byte_first(_)
first_byte_first(bs) ==
    IF Len(bs) = 0 THEN <<>>
    ELSE ByteBitIterator(bs[1]) \o first_byte_first(Drop(bs, 1))

RECURSIVE ByteSliceBitIterator(_)
ByteSliceBitIterator(bs) ==
    IF Len(bs) = 0 THEN <<>>
    ELSE ByteBitIterator(bs[Len(bs)]) \o ByteSliceBitIterator(Take(bs, Len(bs) - 1))

RECURSIVE axis_walk(_, _)
axis_walk(trace, bits) ==
    IF Len(bits) = 0 THEN Ok(trace)
    ELSE IF trace.t # "Cell" THEN Err("IndexOutOfRange")
    ELSE axis_walk(IF bits[1] THEN trace.b ELSE trace.a, Drop(bits, 1))

RECURSIVE axis_for(_, _)
axis_for(subject, bits) ==
    IF Len(bits) = 0 THEN Err("IndexOutOfRange")
    ELSE IF bits[1] THEN axis_walk(subject, Drop(bits, 1))
    ELSE axis_for(subject, Drop(bits, 1))

axis(subject, index) ==
    IF index.t = "Cell" THEN Err("CellAsIndex")
    ELSE axis_for(subject, ByteSliceBitIterator(as_bytes(index)))

(***************************************************************************)
(* vm/src/math.rs                                                          *)
(***************************************************************************)
\* The two carry loops of add, from the last byte to the first: i is the
\* 1-based index in the longer operand, short is aligned to its end.
RECURSIVE add_from(_, _, _, _)
add_from(long, short, i, carry) ==
    IF i = 0 THEN <<>>
    ELSE LET j == i - (Len(long) - Len(short))
             z == long[i] + (IF j >= 1 THEN short[j] ELSE 0) + carry
         IN  Append(add_from(long, short, i - 1, z \div 256), z % 256)

add(x, y) ==
    IF x.t = "Cell" \/ y.t = "Cell" THEN None
    ELSE LET x_bytes == as_bytes(x)
             y_bytes == as_bytes(y)
             long == IF Len(x_bytes) > Len(y_bytes) THEN x_bytes ELSE y_bytes
             short == IF Len(x_bytes) > Len(y_bytes) THEN y_bytes ELSE x_bytes
         IN  Some(from_vec(add_from(long, short, Len(long), 0)))

invert(x) ==
    IF x.t = "Cell" THEN None
    ELSE Some(from_vec([i \in 1..Len(as_bytes(x)) |-> 255 - as_bytes(x)[i]]))

RECURSIVE xor_byte(_, _)
xor_byte(a, b) ==
    IF a = 0 /\ b = 0 THEN 0
    ELSE ((a + b) % 2) + 2 * xor_byte(a \div 2, b \div 2)

xor(x, y) ==
    IF x.t = "Cell" \/ y.t = "Cell" THEN None
    ELSE LET x_bytes == as_bytes(x)
             y_bytes == as_bytes(y)
             long == IF Len(x_bytes) > Len(y_bytes) THEN x_bytes ELSE y_bytes
             short == IF Len(x_bytes) > Len(y_bytes) THEN y_bytes ELSE x_bytes
         IN  Some(from_vec([i \in 1..Len(long) |->
                    IF i <= Len(short) THEN xor_byte(long[i], short[i]) ELSE long[i]]))

\* The first loop of less: the common suffixes, from the last byte back.
RECURSIVE less_suffix(_, _, _)
less_suffix(x_suffix, y_suffix, i) ==
    IF i > Len(x_suffix) THEN FALSE
    ELSE LET xb == x_suffix[i]
             yb == y_suffix[i]
             later == less_suffix(x_suffix, y_suffix, i + 1)
         IN  (later /\ xb <= yb) \/ xb < yb

less(x, y) ==
    IF x.t = "Cell" \/ y.t = "Cell" THEN None
    ELSE LET x_bytes == as_bytes(x)
             y_bytes == as_bytes(y)
             common_len == Min(Len(x_bytes), Len(y_bytes))
             x_prefix == Take(x_bytes, Len(x_bytes) - common_len)
             y_prefix == Take(y_bytes, Len(y_bytes) - common_len)
             x_suffix == Drop(x_bytes, Len(x_bytes) - common_len)
             y_suffix == Drop(y_bytes, Len(y_bytes) - common_len)
             after_suffix == less_suffix(x_suffix, y_suffix, 1)
             after_x == after_suffix /\ (\A i \in 1..Len(x_prefix) : x_prefix[i] = 0)
         IN  Some(after_x \/ (\E i \in 1..Len(y_prefix) : y_prefix[i] # 0))

(***************************************************************************)
(* vm/src/shape.rs.  A NounReader is [has_node, node, stack]: node is what *)
(* is left under the cursor of current_node, stack has its top last.       *)
(***************************************************************************)
NounSize == 24
AllocationBound == 10000000

NounReader_new(noun) == [has_node |-> FALSE, node |-> <<>>, stack |-> <<noun>>]

\* The inner loop of read: walk to the leftmost atom, pushing the right
\* children on the stack.
RECURSIVE descend(_, _)
descend(stack_top, stack) ==
    IF stack_top.t = "Cell" THEN descend(stack_top.a, Append(stack, stack_top.b))
    ELSE [atom |-> stack_top, stack |-> stack]

\* impl Read for NounReader.  The cursor has advanced by read_count when the
\* ticks are refused and the Interrupted error is returned.
RECURSIVE NounReader_read(_, _, _)
NounReader_read(r, buf_len, c) ==
    IF ~r.has_node
    THEN IF Len(r.stack) = 0 THEN [kind |-> "ok", bytes |-> <<>>, r |-> r, c |-> c]
         ELSE Bind(descend(r.stack[Len(r.stack)], Take(r.stack, Len(r.stack) - 1)),
                   LAMBDA d :
              NounReader_read([has_node |-> Len(as_bytes(d.atom)) > 0,
                               node |-> as_bytes(d.atom),
                               stack |-> d.stack], buf_len, c))
    ELSE LET read_count == Min(buf_len, Len(r.node))
             r1 == [r EXCEPT !.node = Drop(@, read_count)]
             t == incur(c, read_count)
         IN  IF read_count > 0
             THEN IF ~t.ok THEN [kind |-> "Interrupted", bytes |-> <<>>, r |-> r1, c |-> t.c]
                  ELSE [kind |-> "ok", bytes |-> Take(r.node, read_count),
                        r |-> r1, c |-> t.c]
             ELSE NounReader_read([r EXCEPT !.has_node = FALSE], buf_len, c)

\* std::io::Read::read_exact as NounReader inherits it: a read of 0 bytes
\* ends it with UnexpectedEof, an Interrupted read is tried again.
RECURSIVE read_exact(_, _, _, _)
read_exact(r, want, got, c) ==
    IF Len(got) = want THEN [ok |-> TRUE, v |-> got, r |-> r, c |-> c]
    ELSE Bind(NounReader_read(r, want - Len(got), c), LAMBDA rd :
         IF rd.kind = "Interrupted" THEN read_exact(rd.r, want, got, rd.c)
         ELSE IF Len(rd.bytes) = 0
            THEN [ok |-> FALSE, e |-> "UnexpectedEof", r |-> rd.r, c |-> rd.c]
         ELSE read_exact(rd.r, want, got \o rd.bytes, rd.c))

\* populate_structure; bound is what is left of allocation_bound.
RECURSIVE populate_structure(_, _, _, _)
populate_structure(structure, r, bound, c) ==
    IF bound < NounSize
    THEN [ok |-> FALSE, e |-> "AllocationBoundExceeded", r |-> r, bound |-> bound, c |-> c]
    ELSE IF structure.t = "Cell"
    THEN Try(populate_structure(structure.a, r, bound - NounSize, c), LAMBDA left :
         Try(populate_structure(structure.b, left.r, left.bound, left.c), LAMBDA right :
         [right EXCEPT !.v = new_cell(left.v, right.v)]))
    ELSE Bind(as_usize(structure), LAMBDA expected_count :
         IF ~expected_count.some \/ bound - NounSize < expected_count.v
         THEN [ok |-> FALSE, e |-> "AllocationBoundExceeded", r |-> r,
               bound |-> bound - NounSize, c |-> c]
         ELSE Bind(read_exact(r, expected_count.v, <<>>, c), LAMBDA xs :
              IF ~xs.ok
              THEN [ok |-> FALSE, e |-> "DataTooShort", r |-> xs.r,
                    bound |-> bound - NounSize - expected_count.v, c |-> xs.c]
              ELSE [ok |-> TRUE, v |-> from_vec(xs.v), r |-> xs.r,
                    bound |-> bound - NounSize - expected_count.v, c |-> xs.c]))

reshape(data, structure, c, allocation_bound) ==
    populate_structure(structure, NounReader_new(data), allocation_bound, c)

\* length, the SHAPE opcode.
RECURSIVE length(_, _)
length(data, c) ==
    incur_then(c, 1, LAMBDA c1 :
    IF data.t = "Cell"
        THEN Try(length(data.a, c1), LAMBDA left :
             Try(length(data.b, left.c), LAMBDA right :
             Done(right.c, new_cell(left.v, right.v))))
    ELSE Done(c1, from_usize_compact(Len(as_bytes(data)))))

(***************************************************************************)
(* The primitives of the crypto crate and the side effect engine, which    *)
(* vm/src/eval.rs calls.  They are deterministic functions of their        *)
(* inputs: a digest that keeps the length and the leading bytes of its     *)
(* input and key (so it separates the short inputs used here), a cipher    *)
(* that adds a key stream byte by byte, a tag that depends on key, nonce   *)
(* and every ciphertext byte, and a byte generator.                        *)
(***************************************************************************)
Blake2b(out_len, input, key) ==
    LET s == <<Len(input) % 256, Len(key) % 256>> \o input \o key
    IN  [i \in 1..out_len |-> IF i <= Len(s) THEN s[i] ELSE 0]

RECURSIVE weighted_sum(_, _)
weighted_sum(bs, i) ==
    IF i > Len(bs) THEN 0 ELSE (i * bs[i] + weighted_sum(bs, i + 1)) % 256

key_stream(key, nonce, i) == (key[((i - 1) % 32) + 1] + nonce[((i - 1) % 8) + 1] + i) % 256

ChaCha20Poly1305_encrypt(key, nonce, plaintext) ==
    LET ciphertext == [i \in 1..Len(plaintext) |->
                          (plaintext[i] + key_stream(key, nonce, i)) % 256]
        tag == [i \in 1..16 |->
                   (key[i] + 3 * key[i + 16] + nonce[((i - 1) % 8) + 1]
                        + weighted_sum(ciphertext, 1)) % 256]
    IN  [ciphertext |-> ciphertext, tag |-> tag]

ChaCha20Poly1305_decrypt(key, nonce, ciphertext, tag) ==
    LET plaintext == [i \in 1..Len(ciphertext) |->
                         (ciphertext[i] + 256 - key_stream(key, nonce, i)) % 256]
    IN  IF ChaCha20Poly1305_encrypt(key, nonce, plaintext).tag = tag
            THEN Some(plaintext) ELSE None

\* SideEffectEngine::random: the next count bytes of the engine's generator.
random(c, count) ==
    [bytes |-> [i \in 1..count |-> (17 + 29 * (c.random_calls + i)) % 256],
     c |-> [c EXCEPT !.random_calls = @ + count]]

\* SideEffectEngine::secret
secret == [i \in 1..32 |-> i + 100]

\* SideEffectEngine::load and ::store over the set of <<key, value>> pairs.
load(c, key) ==
    IF \E p \in c.storage : p[1] = key
        THEN Some((CHOOSE p \in c.storage : p[1] = key)[2])
        ELSE None

store(c, key, value) ==
    [c EXCEPT !.storage = {p \in @ : p[1] # key} \cup {<<key, value>>}]

(***************************************************************************)
(* vm/src/opcode.rs                                                        *)
(***************************************************************************)
AXIS == 0
LITERAL == 1
RECURSE == 2
IS_CELL == 3
RESHAPE == 4
IS_EQUAL == 5
\* IF and DEFINE are reserved words of TLA+.
OP_IF == 6
COMPOSE == 7
OP_DEFINE == 8
CALL == 9
HASH == 10
STORE_BY_HASH == 11
RETRIEVE_BY_HASH == 12
STORE_BY_KEY == 13
RETRIEVE_BY_KEY == 14
RANDOM == 15
GENERATE_KEYPAIR == 16
ENCRYPT == 17
DECRYPT == 18
EXUCRYPT == 19
SHAPE == 20
ADD == 21
INVERT == 22
XOR == 23
LESS == 24

(***************************************************************************)
(* vm/src/eval.rs.  eval_on(c, subject, formula, depth) is one pass of the *)
(* 'tail_recurse loop of the eval_on invocation nested depth deep: a       *)
(* continue is a further pass at tail_recurse(depth), a call of          *)
(* self.eval_on is a pass at nested_call(depth).                           *)
(***************************************************************************)
SYMMETRIC_NONCE_LEN == 8
SYMMETRIC_TAG_LEN == 16
MaxSerializedLen == 1000000
MaxRandomLen == 1000000

nested_call(depth) == depth + 1

\* A continue 'tail_recurse handled by a host call instead.
tail_by_host_call(depth) == depth + 1
tail_recurse(depth) == depth

FailOpcode(c, opcode) == [ok |-> FALSE, e |-> "BadOpcode", opcode |-> opcode, c |-> c]

\* Computation::serialize
eval_serialize(c, noun) ==
    Bind(serialize(noun, MaxSerializedLen), LAMBDA buffer :
    IF buffer.ok THEN Done(c, buffer.v)
    ELSE IF buffer.e = "OverlongAtom" THEN Fail(c, "BadArgument")
    ELSE Fail(c, "MemoryExceeded"))

\* key_arg after bytes_arg: the 32 bytes of an atom.
key_arg(noun) ==
    IF noun.t = "Cell" \/ Len(as_bytes(noun)) # 32 THEN Err("BadArgument")
    ELSE Ok(as_bytes(noun))

RECURSIVE private_symmetric_key_for(_, _, _)
private_symmetric_key_for(c, public, branched_right) ==
    IF public.t # "Cell"
    THEN incur_then(c, Len(as_bytes(public)), LAMBDA c1 :
         Done(c1, Blake2b(32, as_bytes(public), IF branched_right THEN secret ELSE <<>>)))
    ELSE incur_then(c, 128, LAMBDA c1 :
         Try(private_symmetric_key_for(c1, public.a, FALSE), LAMBDA left_hash :
         Try(private_symmetric_key_for(left_hash.c, public.b, TRUE), LAMBDA right_hash :
         Done(right_hash.c, Blake2b(32, left_hash.v \o right_hash.v, <<>>)))))

\* Computation::decrypt; the value is an Option<Noun>.
decrypt(c, key, ciphertext) ==
    IF Len(ciphertext) < SYMMETRIC_NONCE_LEN + SYMMETRIC_TAG_LEN THEN Done(c, None)
    ELSE incur_then(c, Len(ciphertext), LAMBDA c1 :
         Bind(ChaCha20Poly1305_decrypt(
                  key,
                  Take(ciphertext, SYMMETRIC_NONCE_LEN),
                  Drop(ciphertext, SYMMETRIC_NONCE_LEN + SYMMETRIC_TAG_LEN),
                  SubSeq(ciphertext, SYMMETRIC_NONCE_LEN + 1,
                         SYMMETRIC_NONCE_LEN + SYMMETRIC_TAG_LEN)),
              LAMBDA plaintext_buffer :
         IF ~plaintext_buffer.some THEN Done(c1, None)
         ELSE Bind(deserialize(plaintext_buffer.v), LAMBDA result :
              Done(c1, IF result.ok THEN Some(result.v) ELSE None))))

\* Computation::encrypt
encrypt(c, key, plaintext) ==
    Try(eval_serialize(c, plaintext), LAMBDA result_buffer :
    Bind(random(c, SYMMETRIC_NONCE_LEN), LAMBDA nonce :
    Bind(ChaCha20Poly1305_encrypt(key, nonce.bytes, result_buffer.v), LAMBDA sealed :
    Done(nonce.c, from_vec(nonce.bytes \o sealed.tag \o sealed.ciphertext)))))

RECURSIVE eval_on(_, _, _, _)

\* Computation::retrieve_with_tag
retrieve_with_tag(c, subject, key, tag, depth) ==
    Bind(load(c, Append(key, tag)), LAMBDA xs :
    IF ~xs.some THEN Done(c, from_bool(FALSE))
    ELSE Bind(deserialize(xs.v), LAMBDA retrieved :
         IF ~retrieved.ok THEN Fail(c, "StorageCorrupt")
         ELSE Try(eval_on(c, subject, retrieved.v, nested_call(depth)), LAMBDA value :
              Done(value.c, new_cell(from_bool(TRUE), value.v)))))

\* The arms RECURSE, IF, COMPOSE, DEFINE and CALL of eval_on.
eval_flow(c, subject, opcode, argument, depth) ==
    CASE opcode = RECURSE ->
         IF argument.t # "Cell" THEN Fail(c, "BadRecurseArgument")
         ELSE LET b_result == eval_on(c, subject, argument.a, nested_call(depth))
                  c_result == eval_on(b_result.c, subject, argument.b, nested_call(depth))
              IN  IF ~b_result.ok THEN b_result
                  ELSE IF ~c_result.ok THEN c_result
                  ELSE eval_on(c_result.c, b_result.v, c_result.v, tail_recurse(depth))
      [] opcode = OP_IF ->
         IF argument.t # "Cell" \/ argument.b.t # "Cell" THEN Fail(c, "BadArgument")
         ELSE LET condition == eval_on(c, subject, argument.a, nested_call(depth))
              IN  IF ~condition.ok THEN condition
                  ELSE CASE as_u8(condition.v) = Some(0) ->
                            eval_on(condition.c, subject, argument.b.a, tail_recurse(depth))
                         [] as_u8(condition.v) = Some(1) ->
                            eval_on(condition.c, subject, argument.b.b, tail_recurse(depth))
                         [] OTHER -> Fail(condition.c, "BadIfCondition")
      [] opcode = COMPOSE ->
         IF argument.t # "Cell" THEN Fail(c, "BadArgument")
         ELSE LET b_of_x == eval_on(c, subject, argument.a, nested_call(depth))
              IN  IF ~b_of_x.ok THEN b_of_x
                  ELSE eval_on(b_of_x.c, b_of_x.v, argument.b, tail_recurse(depth))
      [] opcode = OP_DEFINE ->
         IF argument.t # "Cell" THEN Fail(c, "BadArgument")
         ELSE LET subject_prime == eval_on(c, subject, argument.a, nested_call(depth))
              IN  IF ~subject_prime.ok THEN subject_prime
                  ELSE eval_on(subject_prime.c, new_cell(subject_prime.v, subject),
                               argument.b, tail_recurse(depth))
      [] opcode = CALL ->
         IF argument.t # "Cell" THEN Fail(c, "BadArgument")
         ELSE LET core == eval_on(c, subject, argument.b, nested_call(depth))
                  inner_formula == axis(core.v, argument.a)
              IN  IF ~core.ok THEN core
                  ELSE IF ~inner_formula.ok THEN Fail(core.c, inner_formula.e)
                  ELSE eval_on(core.c, core.v, inner_formula.v, tail_recurse(depth))

\* The arms HASH, STORE_BY_HASH, RETRIEVE_BY_HASH, STORE_BY_KEY and
\* RETRIEVE_BY_KEY; arg is the evaluated argument.
eval_storage(subject, opcode, arg, depth) ==
    IF opcode = HASH \/ opcode = STORE_BY_HASH
    THEN Try(eval_serialize(arg.c, arg.v), LAMBDA buffer :
         incur_then(buffer.c, 20 + Len(buffer.v), LAMBDA c1 :
         Bind(Blake2b(64, buffer.v, <<>>), LAMBDA result :
         IF opcode = HASH THEN Done(c1, from_slice(result))
         ELSE Done(store(c1, Append(result, 1), buffer.v), from_bool(TRUE)))))
    ELSE IF opcode = RETRIEVE_BY_HASH
    THEN Bind(into_vec(arg.v), LAMBDA key :
         IF key.some THEN retrieve_with_tag(arg.c, subject, key.v, 1, depth)
         ELSE Done(arg.c, from_bool(FALSE)))
    ELSE IF opcode = STORE_BY_KEY
    THEN IF arg.v.t # "Cell" THEN Fail(arg.c, "BadArgument")
         ELSE Try(eval_serialize(arg.c, arg.v.a), LAMBDA storage_key :
              Try(eval_serialize(arg.c, arg.v.b), LAMBDA storage_value :
              Done(store(arg.c, Append(storage_key.v, 0), storage_value.v),
                   from_bool(TRUE))))
    ELSE Try(eval_serialize(arg.c, arg.v), LAMBDA key_bytes :
         retrieve_with_tag(arg.c, subject, key_bytes.v, 0, depth))

\* The atom length max(lhs.atom_len().unwrap_or(0), rhs.atom_len().unwrap_or(0)).
math_cost(lhs, rhs) ==
    Max(IF atom_len(lhs).some THEN atom_len(lhs).v ELSE 0,
        IF atom_len(rhs).some THEN atom_len(rhs).v ELSE 0)

\* The arms IS_CELL, IS_EQUAL, RANDOM, RESHAPE, SHAPE, ADD, LESS, XOR and
\* INVERT; arg is the evaluated argument.
eval_data(opcode, arg) ==
    IF opcode = IS_CELL THEN Done(arg.c, from_bool(is_cell(arg.v)))
    ELSE IF opcode = SHAPE THEN length(arg.v, arg.c)
    ELSE IF opcode = RANDOM
    THEN Bind(as_usize(arg.v), LAMBDA len :
         IF ~len.some \/ len.v > MaxRandomLen THEN Fail(arg.c, "InvalidLength")
         ELSE Bind(random(arg.c, len.v), LAMBDA drawn :
              Done(drawn.c, from_vec(drawn.bytes))))
    ELSE IF opcode = INVERT
    THEN incur_then(arg.c, math_cost(arg.v, arg.v), LAMBDA c1 :
         Bind(invert(arg.v), LAMBDA result :
         IF ~result.some THEN Fail(c1, "NonAtomicMath") ELSE Done(c1, result.v)))
    ELSE IF opcode = IS_EQUAL
    THEN IF arg.v.t # "Cell" THEN Fail(arg.c, "BadEqualsArgument")
         ELSE Try(equal(arg.v.a, arg.v.b, arg.c), LAMBDA same :
              Done(same.c, from_bool(same.v)))
    ELSE IF arg.v.t # "Cell" THEN Fail(arg.c, "BadArgument")
    ELSE IF opcode = RESHAPE
    THEN Bind(reshape(arg.v.a, arg.v.b, arg.c, AllocationBound), LAMBDA shaped :
         IF ~shaped.ok THEN Fail(shaped.c, "BadShape") ELSE Done(shaped.c, shaped.v))
    ELSE incur_then(arg.c, math_cost(arg.v.a, arg.v.b), LAMBDA c1 :
         Bind(IF opcode = ADD THEN add(arg.v.a, arg.v.b)
              ELSE IF opcode = XOR THEN xor(arg.v.a, arg.v.b)
              ELSE less(arg.v.a, arg.v.b),
              LAMBDA result :
         IF ~result.some THEN Fail(c1, "NonAtomicMath")
         ELSE Done(c1, IF opcode = LESS THEN from_bool(result.v) ELSE result.v)))

\* The arms GENERATE_KEYPAIR, DECRYPT, ENCRYPT and EXUCRYPT; arg is the
\* evaluated argument.
eval_crypto(subject, opcode, arg, depth) ==
    IF opcode = GENERATE_KEYPAIR
    THEN Bind(random(arg.c, 32), LAMBDA random_seed :
         Bind(new_cell(arg.v, from_vec(random_seed.bytes)), LAMBDA public :
         Try(private_symmetric_key_for(random_seed.c, public, FALSE), LAMBDA private :
         Done(private.c, new_cell(from_slice(private.v), public)))))
    ELSE IF arg.v.t # "Cell" THEN Fail(arg.c, "BadArgument")
    ELSE IF opcode = DECRYPT
    THEN Bind(key_arg(arg.v.a), LAMBDA key :
         IF ~key.ok \/ arg.v.b.t = "Cell" THEN Fail(arg.c, "BadArgument")
         ELSE Try(decrypt(arg.c, key.v, as_bytes(arg.v.b)), LAMBDA plaintext :
              IF plaintext.v.some
                THEN Done(plaintext.c, new_cell(from_bool(TRUE), plaintext.v.v))
              ELSE Done(plaintext.c, from_bool(FALSE))))
    ELSE IF opcode = ENCRYPT
    THEN Bind(key_arg(arg.v.a), LAMBDA key :
         IF ~key.ok THEN Fail(arg.c, "BadArgument")
         ELSE encrypt(arg.c, key.v, arg.v.b))
    ELSE Try(private_symmetric_key_for(arg.c, arg.v.a, FALSE), LAMBDA private_key :
         IF arg.v.b.t = "Cell" THEN Fail(private_key.c, "BadArgument")
         ELSE Try(decrypt(private_key.c, private_key.v, as_bytes(arg.v.b)),
                  LAMBDA program :
              IF ~program.v.some THEN Done(program.c, from_bool(FALSE))
              ELSE Try(eval_on(program.c, subject, program.v.v, nested_call(depth)),
                       LAMBDA result :
                   Try(encrypt(result.c, private_key.v, result.v), LAMBDA sealed :
                   Done(sealed.c, new_cell(from_bool(TRUE), sealed.v))))))

FlowOpcodes == {RECURSE, OP_IF, COMPOSE, OP_DEFINE, CALL}
StorageOpcodes == {HASH, STORE_BY_HASH, RETRIEVE_BY_HASH, STORE_BY_KEY, RETRIEVE_BY_KEY}
DataOpcodes == {IS_CELL, IS_EQUAL, RANDOM, RESHAPE, SHAPE, ADD, LESS, XOR, INVERT}
CryptoOpcodes == {GENERATE_KEYPAIR, DECRYPT, ENCRYPT, EXUCRYPT}

\* Computation::eval_on
eval_on(c0, subject, formula, depth) ==
    LET t == incur([c0 EXCEPT !.max_depth = Max(@, depth)], 1)
        c == t.c
        opcode == as_u8(formula.a).v
        argument == formula.b
        arg == eval_on(c, subject, argument, nested_call(depth))
    IN  IF ~t.ok THEN Fail(c, "TickLimitExceeded")
        ELSE IF formula.t # "Cell" THEN Fail(c, "AtomicFormula")
        ELSE IF formula.a.t = "Cell"
        THEN LET lhs == eval_on(c, subject, formula.a, nested_call(depth))
                 rhs == eval_on(lhs.c, subject, formula.b, nested_call(depth))
             IN  IF ~lhs.ok THEN lhs
                 ELSE IF ~rhs.ok THEN rhs
                 ELSE Done(rhs.c, new_cell(lhs.v, rhs.v))
        ELSE IF ~as_u8(formula.a).some THEN Fail(c, "NotAnOpcode")
        ELSE CASE opcode = AXIS ->
                  LET found == axis(subject, argument)
                  IN  IF found.ok THEN Done(c, found.v) ELSE Fail(c, found.e)
               [] opcode = LITERAL -> Done(c, argument)
               [] opcode \in FlowOpcodes -> eval_flow(c, subject, opcode, argument, depth)
               [] opcode \in StorageOpcodes ->
                  IF ~arg.ok THEN arg ELSE eval_storage(subject, opcode, arg, depth)
               [] opcode \in DataOpcodes ->
                  IF ~arg.ok THEN arg ELSE eval_data(opcode, arg)
               [] opcode \in CryptoOpcodes ->
                  IF ~arg.ok THEN arg ELSE eval_crypto(subject, opcode, arg, depth)
               [] OTHER -> FailOpcode(c, opcode)

\* eval: what the caller sees, and the Computation left behind.
eval(expression, storage, tick_limit) ==
    IF expression.t # "Cell" THEN Fail(Computation(tick_limit, storage), "EvalOnAtom")
    ELSE eval_on(Computation(tick_limit, storage), expression.a, expression.b, 1)

\* The EvalResult of a finished evaluation.
EvalResult(r) ==
    IF r.ok THEN Ok(r.v)
    ELSE IF r.e = "BadOpcode" THEN [ok |-> FALSE, e |-> r.e, opcode |-> r.opcode]
    ELSE Err(r.e)

\* impl AsNoun for tuples: right-nested cells of a non-empty sequence.
RECURSIVE tuple_as_noun(_)
tuple_as_noun(items) ==
    IF Len(items) = 1 THEN items[1]
    ELSE new_cell(items[1], tuple_as_noun(Drop(items, 1)))

(***************************************************************************)
(* lisp/src/tree.rs and lisp/src/compile.rs.  A Node is                    *)
(*   [k |-> "Parent", children |-> <<nodes>>]     ( ... )                  *)
(*   [k |-> "List", children |-> <<nodes>>]       [ ... ]                  *)
(*   [k |-> "Symbol", name |-> string]                                     *)
(*   [k |-> "Literal", bs |-> <<bytes>>]                                   *)
(* name_resolutions is a function from names to axis positions.  The       *)
(* outcome of compiling is Ok(noun), an error message, or a panic.         *)
(***************************************************************************)
Parent(children) == [k |-> "Parent", children |-> children]
List(children) == [k |-> "List", children |-> children]
Symbol(name) == [k |-> "Symbol", name |-> name]
Literal(bs) == [k |-> "Literal", bs |-> bs]

CompileErr(e) == [ok |-> FALSE, panic |-> FALSE, e |-> e]
CompilePanic(e) == [ok |-> FALSE, panic |-> TRUE, e |-> e]

native_opcode_for_name(name) ==
    CASE name = "random" -> Some(<<RANDOM, 1>>)
      [] name = "is_cell" -> Some(<<IS_CELL, 1>>)
      [] name = "hash" -> Some(<<HASH, 1>>)
      [] name = "shape" -> Some(<<SHAPE, 1>>)
      [] name = "if" -> Some(<<OP_IF, 3>>)
      [] name = "equal" -> Some(<<IS_EQUAL, 2>>)
      [] name = "store_by_hash" -> Some(<<STORE_BY_HASH, 1>>)
      [] name = "retrieve_by_hash" -> Some(<<RETRIEVE_BY_HASH, 1>>)
      [] name = "store_by_key" -> Some(<<STORE_BY_KEY, 2>>)
      [] name = "retrieve_by_key" -> Some(<<RETRIEVE_BY_KEY, 1>>)
      [] name = "generate_keypair" -> Some(<<GENERATE_KEYPAIR, 0>>)
      [] name = "encrypt" -> Some(<<ENCRYPT, 2>>)
      [] name = "decrypt" -> Some(<<DECRYPT, 2>>)
      [] name = "exucrypt" -> Some(<<EXUCRYPT, 2>>)
      [] name = "add" -> Some(<<ADD, 2>>)
      [] name = "invert" -> Some(<<INVERT, 1>>)
      [] name = "xor" -> Some(<<XOR, 2>>)
      [] name = "less" -> Some(<<LESS, 2>>)
      [] name = "reshape" -> Some(<<RESHAPE, 2>>)
      [] OTHER -> None

\* vec_to_tree of a non-empty vector (it panics on an empty one).
RECURSIVE vec_to_tree(_)
vec_to_tree(xs) ==
    IF Len(xs) = 1 THEN xs[1] ELSE new_cell(xs[1], vec_to_tree(Drop(xs, 1)))

\* One round of the 'pairing_loop.
RECURSIVE pack_pairs(_)
pack_pairs(ns) ==
    IF Len(ns) = 0 THEN <<>>
    ELSE IF Len(ns) = 1 THEN <<ns[1]>>
    ELSE <<new_cell(ns[1], ns[2])>> \o pack_pairs(Drop(ns, 2))

\* build_into_dense_tree of a non-empty vector (it asserts !ns.is_empty()).
RECURSIVE build_into_dense_tree(_)
build_into_dense_tree(ns) ==
    IF Len(ns) = 1 THEN ns[1] ELSE build_into_dense_tree(pack_pairs(ns))

\* u64::ilog2 of a positive number.
RECURSIVE ilog2(_)
ilog2(x) == IF x <= 1 THEN 0 ELSE 1 + ilog2(x \div 2)

dense_tree_positions(count) ==
    IF count = 0 THEN <<>>
    ELSE LET max_level_needed == ilog2(count) + 1
             spots_in_max_level == Pow2(max_level_needed)
             extra_spaces_in_max_level == spots_in_max_level - count
             nouns_at_max_level == spots_in_max_level - extra_spaces_in_max_level * 2
             nouns_at_level_above == count - nouns_at_max_level
             first_noun_at_max_level == spots_in_max_level
             first_noun_at_level_above == first_noun_at_max_level - nouns_at_level_above
         IN  [i \in 1..nouns_at_max_level |-> first_noun_at_max_level + i - 1]
                \o [i \in 1..nouns_at_level_above |-> first_noun_at_level_above + i - 1]

add_initial_step(axis_placement, initial_step) ==
    LET leading_one_position == ilog2(axis_placement)
    IN  Pow2(leading_one_position + 1) + initial_step * Pow2(leading_one_position)
            + (axis_placement % Pow2(leading_one_position))

NoNames == [name \in {} |-> 0]

add_name_resolutions(parent_name_resolutions, names) ==
    LET definition_positions == dense_tree_positions(Len(names))
        introduced == {names[i] : i \in 1..Len(names)}
        \* a later insert of the same name replaces the earlier one
        last_of(name) == CHOOSE i \in 1..Len(names) :
                            names[i] = name /\ \A j \in (i + 1)..Len(names) : names[j] # name
    IN  [name \in DOMAIN parent_name_resolutions \cup introduced |->
            IF name \in introduced
                THEN add_initial_step(definition_positions[last_of(name)], 0)
                ELSE add_initial_step(parent_name_resolutions[name], 1)]

add_argument_name_resolutions(arguments, name_resolutions) ==
    IF arguments.k # "Parent" THEN CompileErr("Arguments to a lambda should be a list")
    ELSE IF \E i \in 1..Len(arguments.children) : arguments.children[i].k # "Symbol"
        THEN CompileErr("Argument name should be a symbol")
    ELSE Ok(add_name_resolutions(name_resolutions,
                [i \in 1..Len(arguments.children) |-> arguments.children[i].name]))

combine_axis_indices(applied_first, applied_second) ==
    LET path_bits_in_second == ilog2(applied_second)
    IN  applied_first * Pow2(path_bits_in_second)
            + (applied_second - Pow2(path_bits_in_second))

\* Noun::as_u64, for the index literal of an axis form.
as_u64(n) == as_usize(n)

\* literal_node_to_noun: kind is "some", "none", or "panic" (vec_to_tree of
\* an empty list); literal_nodes is its collect over the children from i on.
RECURSIVE literal_node_to_noun(_)
RECURSIVE literal_nodes(_, _)
literal_nodes(children, i) ==
    IF i > Len(children) THEN [kind |-> "some", v |-> <<>>]
    ELSE Bind(literal_node_to_noun(children[i]), LAMBDA head :
         IF head.kind # "some" THEN head
         ELSE Bind(literal_nodes(children, i + 1), LAMBDA rest :
              IF rest.kind # "some" THEN rest
              ELSE [kind |-> "some", v |-> <<head.v>> \o rest.v]))

literal_node_to_noun(node) ==
    IF node.k = "Literal" THEN [kind |-> "some", v |-> from_vec(node.bs)]
    ELSE IF node.k = "List"
        THEN Bind(literal_nodes(node.children, 1), LAMBDA items :
             IF items.kind # "some" THEN items
             ELSE IF Len(items.v) = 0 THEN [kind |-> "panic"]
             ELSE [kind |-> "some", v |-> vec_to_tree(items.v)])
    ELSE [kind |-> "none"]

RECURSIVE compile_node(_, _, _)

\* children.iter().map(|c| compile_node(c, name_resolutions, None)).collect()
\* over the children from i on.
RECURSIVE compile_all(_, _, _)
compile_all(children, i, name_resolutions) ==
    IF i > Len(children) THEN Ok(<<>>)
    ELSE Try(compile_node(children[i], name_resolutions, None), LAMBDA head :
         Try(compile_all(children, i + 1, name_resolutions), LAMBDA rest :
         Ok(<<head.v>> \o rest.v)))

\* The loop of add_bindings over the bindings from i on: the compiled
\* definition expressions and the names.
RECURSIVE bindings_from(_, _, _)
bindings_from(bindings, i, parent_name_resolutions) ==
    IF i > Len(bindings) THEN [ok |-> TRUE, exprs |-> <<>>, names |-> <<>>]
    ELSE IF bindings[i].k # "Parent"
    THEN CompileErr("Expected each item of first argument of let expression to be a (name expression) pair")
    ELSE IF Len(bindings[i].children) # 2
    THEN CompileErr("Malformed (name expression) pair in let expression")
    ELSE IF bindings[i].children[1].k # "Symbol"
    THEN CompileErr("Expected symbol as the introduced variable name in let expression")
    ELSE Try(compile_node(bindings[i].children[2], parent_name_resolutions,
                          Some(bindings[i].children[1].name)),
             LAMBDA expr :
         Try(bindings_from(bindings, i + 1, parent_name_resolutions), LAMBDA rest :
         [ok |-> TRUE, exprs |-> <<expr.v>> \o rest.exprs,
          names |-> <<bindings[i].children[1].name>> \o rest.names]))

add_bindings(bindings_list, parent_name_resolutions) ==
    IF bindings_list.k # "Parent"
    THEN CompileErr("Expected first argument of let expression to be a list of variables to introduce.")
    ELSE Try(bindings_from(bindings_list.children, 1, parent_name_resolutions),
             LAMBDA found :
         IF Len(found.exprs) = 0 THEN CompilePanic("assertion failed: !ns.is_empty()")
         ELSE [ok |-> TRUE,
               definition_tree |-> build_into_dense_tree(found.exprs),
               name_resolutions |->
                   add_name_resolutions(parent_name_resolutions, found.names)])

\* The arm of compile_node for a Parent whose first child is the symbol
\* function_name.
compile_form(function_name, children, name_resolutions, self_name) ==
    Bind(native_opcode_for_name(function_name), LAMBDA native :
    IF native.some
    THEN IF Len(children) # native.v[2] + 1 THEN CompileErr("Wrong number of parameters")
         ELSE Try(compile_all(children, 2, name_resolutions), LAMBDA compiled_args :
              Ok(vec_to_tree(<<from_u8(native.v[1])>> \o compiled_args.v)))
    ELSE IF function_name = "axis"
    THEN IF Len(children) # 3 THEN CompileErr("Malformed axis expression")
         ELSE IF children[2].k = "Symbol" /\ children[3].k = "Literal"
         THEN Bind(as_u64(from_vec(children[3].bs)), LAMBDA index :
              IF ~index.some THEN CompileErr("too big to be an index")
              ELSE IF children[2].name \notin DOMAIN name_resolutions
                THEN CompileErr("Unknown variable")
              ELSE IF index.v = 0
                THEN CompilePanic("argument of integer logarithm must be positive")
              ELSE Ok(new_cell(from_u8(AXIS),
                        from_u64_compact(combine_axis_indices(
                            name_resolutions[children[2].name], index.v)))))
         ELSE Try(compile_node(children[2], name_resolutions, None),
                  LAMBDA subject_maker :
              Try(compile_node(children[3], name_resolutions, None),
                  LAMBDA index_maker :
              Ok(new_cell(from_u8(RECURSE),
                    new_cell(subject_maker.v,
                        new_cell(new_cell(from_u8(LITERAL), from_u8(AXIS)),
                                 index_maker.v))))))
    ELSE IF function_name = "let"
    THEN IF Len(children) # 3 THEN CompileErr("Malformed let expression")
         ELSE Try(add_bindings(children[2], name_resolutions), LAMBDA bound :
              Try(compile_node(children[3], bound.name_resolutions, None), LAMBDA body :
              Ok(new_cell(from_u8(OP_DEFINE),
                          new_cell(bound.definition_tree, body.v)))))
    ELSE IF function_name = "lambda"
    THEN IF Len(children) # 3 THEN CompileErr("Malformed lambda expression")
         ELSE Bind(add_name_resolutions(name_resolutions, <<>>), LAMBDA buried :
              Try(add_argument_name_resolutions(
                      children[2],
                      IF self_name.some
                        THEN [name \in DOMAIN buried \cup {self_name.v} |->
                                 IF name = self_name.v THEN 1 ELSE buried[name]]
                        ELSE buried),
                  LAMBDA extended :
              Try(compile_node(children[3], extended.v, None), LAMBDA lambda_body :
              Ok(new_cell(new_cell(from_u8(LITERAL), lambda_body.v),
                          new_cell(from_u8(AXIS), from_u8(1)))))))
    ELSE IF function_name \notin DOMAIN name_resolutions
    THEN CompileErr("Unknown function called")
    ELSE Try(compile_all(children, 2, name_resolutions), LAMBDA args :
         IF Len(args.v) = 0 THEN CompilePanic("assertion failed: !ns.is_empty()")
         ELSE Ok(new_cell(from_u8(CALL),
                    new_cell(from_u8(6),
                        new_cell(build_into_dense_tree(args.v),
                            new_cell(from_u8(AXIS),
                                from_u64_compact(name_resolutions[function_name]))))))))

compile_node(node, name_resolutions, self_name) ==
    IF node.k = "Symbol"
    THEN IF node.name \notin DOMAIN name_resolutions
            THEN CompileErr("Unresolved variable name")
            ELSE Ok(new_cell(from_u8(AXIS), from_u64_compact(name_resolutions[node.name])))
    ELSE IF node.k = "Literal" THEN Ok(new_cell(from_u8(LITERAL), from_vec(node.bs)))
    ELSE IF node.k = "List"
    THEN Bind(literal_node_to_noun(node), LAMBDA entirely_literal :
         IF entirely_literal.kind = "panic"
            THEN CompilePanic("vec_to_tree cannot take an empty list")
         ELSE IF entirely_literal.kind = "some"
            THEN Ok(new_cell(from_u8(LITERAL), entirely_literal.v))
         ELSE Try(compile_all(node.children, 1, name_resolutions), LAMBDA compiled :
              Ok(vec_to_tree(compiled.v))))
    ELSE IF Len(node.children) = 0 THEN CompileErr("Tried to compile empty parent node ()")
    ELSE IF node.children[1].k # "Symbol"
        THEN CompileErr("Expected a function call-like token")
    ELSE compile_form(node.children[1].name, node.children, name_resolutions, self_name)

\* compile, from the parsed tree on.
compile(ast) == compile_node(ast, NoNames, None)

\* The tick limit of the test helpers eval_simple and expect_eval.
FullTicks == 1000000

\* tests::compile_and_eval: the compiled code is run on the subject 0.
compile_and_eval(ast) ==
    Bind(compile(ast), LAMBDA code_noun :
    IF ~code_noun.ok THEN Fail(Computation(FullTicks, {}), "compile failed")
    ELSE eval(new_cell(from_u8(0), code_noun.v), {}, FullTicks))

(***************************************************************************)
(* The transport: src/src.  Keys and identifiers are symbolic.  A seed is  *)
(* a number; ed25519::keypair(seed) is the pair <<"private", seed>>,       *)
(* <<"public", seed>>; the key two parties agree on is the set of their    *)
(* two seeds.  The n-th u64 of the ChaCha20 stream of a key and a nonce is *)
(* <<key, nonce, n>>.  A ciphertext byte carries the plaintext byte and    *)
(* the key, nonce and position that made it; the tag names the key, the    *)
(* nonce and the whole ciphertext.                                         *)
(***************************************************************************)
keypair(seed) == [private |-> <<"private", seed>>, public |-> <<"public", seed>>]

ed25519_exchange(public, private) == {public[2], private[2]}

AeadEncrypt(key, nonce, plain) ==
    Bind([i \in 1..Len(plain) |-> <<plain[i], key, nonce, i>>], LAMBDA cipher :
    [encrypted |-> cipher, tag |-> <<key, nonce, cipher>>])

\* AeadDecryptor::decrypt: the plaintext, or None when the tag does not fit.
AeadDecrypt(key, nonce, encrypted, tag) ==
    IF tag # <<key, nonce, encrypted>> THEN None
    ELSE Some([i \in 1..Len(encrypted) |-> encrypted[i][1]])

is_greater_than(self, other) ==
    IF self[2] = other[2] THEN Err("Equal") ELSE Ok(self[2] > other[2])

\* ---- expected_packet_set.rs: inner is a function from identifiers to
\* non-empty sequences of ExpectedPackets.
ExpectedPacketSet_new == [identifier \in {} |-> <<>>]

ExpectedPacket(stream_with, stream_key, packet_number) ==
    [stream_with |-> stream_with, stream_key |-> stream_key, packet_number |-> packet_number]

ExpectedPacketSet_add(inner, packet, identifier) ==
    IF identifier \in DOMAIN inner THEN [inner EXCEPT ![identifier] = Append(@, packet)]
    ELSE inner @@ (identifier :> <<packet>>)

\* Vec::swap_remove: the last element takes the place of the one removed.
swap_remove(list, idx) ==
    [i \in 1..(Len(list) - 1) |-> IF i = idx THEN list[Len(list)] ELSE list[i]]

ExpectedPacketSet_remove(inner, packet, identifier) ==
    IF identifier \notin DOMAIN inner THEN inner
    ELSE Bind(inner[identifier], LAMBDA list :
         Bind({i \in 1..Len(list) : list[i] = packet}, LAMBDA at :
         Bind(IF at = {} THEN list
              ELSE swap_remove(list, CHOOSE i \in at : \A j \in at : i <= j), LAMBDA left :
         IF Len(left) = 0 THEN [i \in DOMAIN inner \ {identifier} |-> inner[i]]
         ELSE [inner EXCEPT ![identifier] = left])))

ExpectedPacketSet_iter(inner, identifier) ==
    IF identifier \in DOMAIN inner THEN inner[identifier] ELSE <<>>

\* ---- stream.rs
\* The nonce of the identifier stream of a direction.
identifier_nonce(direction, neighbor_is_lexico_later) ==
    IF (direction = "Incoming") = neighbor_is_lexico_later THEN "ffffffff11111111"
    ELSE "ffffffff00000000"

generate_identifiers(stream, direction, initial_identifier_number, count) ==
    [i \in 1..count |->
        <<stream.key, identifier_nonce(direction, stream.neighbor_is_lexico_later),
          initial_identifier_number + i - 1>>]

\* The loop of Stream::maybe_new: the packet numbers 0, 1, ... are added, in
\* this order, each under its identifier.
expect_all(upcoming_packets, stream_with, key, identifiers) ==
    [identifier \in DOMAIN upcoming_packets \cup {identifiers[i] : i \in 1..Len(identifiers)} |->
        Bind({i \in 1..Len(identifiers) : identifiers[i] = identifier}, LAMBDA at :
        ExpectedPacketSet_iter(upcoming_packets, identifier)
            \o [k \in 1..Cardinality(at) |->
                   ExpectedPacket(stream_with, key,
                       (CHOOSE i \in at : Cardinality({j \in at : j < i}) = k - 1) - 1)])]

IncomingWindow == 64
OutgoingBatch == 8

\* Stream::maybe_new: the Option<Stream> and upcoming_packets as it leaves it.
\* incoming_message_mask is the set of the bits that are set.
maybe_new(own_seed, neighbor_key_material, stream_with, neighbor_is_lexico_later, upcoming_packets) ==
    IF ~(own_seed.some /\ neighbor_key_material.some)
        THEN [stream |-> None, upcoming_packets |-> upcoming_packets]
    ELSE Bind([key |-> ed25519_exchange(neighbor_key_material.v, keypair(own_seed.v).private),
               outgoing_message_identifiers |-> [i \in 1..OutgoingBatch |-> 0],
               outgoing_message_index |-> 0,
               neighbor_is_lexico_later |-> neighbor_is_lexico_later,
               incoming_message_mask_start |-> 0,
               incoming_message_mask |-> 0..63], LAMBDA stream :
         [stream |-> Some(stream),
          upcoming_packets |->
              expect_all(upcoming_packets, stream_with, stream.key,
                         generate_identifiers(stream, "Incoming", 0, IncomingWindow))])

\* make_keystream: the ChaCha20Poly1305 of the key and the nonce.
make_keystream(stream, nonce) == [key |-> stream.key, nonce |-> nonce]

\* Stream::produce_outgoing_identifier: the stream after it, the identifier
\* and the keystream.
Stream_produce_outgoing_identifier(stream) ==
    Bind(IF stream.outgoing_message_index % OutgoingBatch = 0
         THEN [stream EXCEPT !.outgoing_message_identifiers =
                   generate_identifiers(stream, "Outgoing", stream.outgoing_message_index,
                                        OutgoingBatch)]
         ELSE stream, LAMBDA batched :
    [stream |-> [batched EXCEPT !.outgoing_message_index = @ + 1],
     identifier |-> batched.outgoing_message_identifiers[
                        (batched.outgoing_message_index % OutgoingBatch) + 1],
     keystream |-> make_keystream(batched,
                       batched.outgoing_message_index * 2
                           + (IF batched.neighbor_is_lexico_later THEN 1 ELSE 0))])

\* A variant that takes for an incoming packet the nonce offset of the
\* outgoing ones.
decrypt_with_outgoing_offset(stream, packet_number, encrypted, checksum) ==
    Bind(make_keystream(stream, packet_number * 2
                                    + (IF stream.neighbor_is_lexico_later THEN 1 ELSE 0)),
         LAMBDA keystream :
    Bind(AeadDecrypt(keystream.key, keystream.nonce, encrypted, checksum), LAMBDA output :
    IF output.some THEN Ok(output.v) ELSE Err("BadChecksum")))

Stream_decrypt_incoming_payload(stream, packet_number, encrypted, checksum) ==
    Bind(make_keystream(stream, packet_number * 2
                                    + (IF stream.neighbor_is_lexico_later THEN 0 ELSE 1)),
         LAMBDA keystream :
    Bind(AeadDecrypt(keystream.key, keystream.nonce, encrypted, checksum), LAMBDA output :
    IF output.some THEN Ok(output.v) ELSE Err("BadChecksum")))

StreamCluster_new(neighbor, neighbor_is_lexico_later) ==
    [neighbor |-> neighbor,
     neighbor_is_lexico_later |-> neighbor_is_lexico_later,
     own_current_acknowledged |-> FALSE,
     own_current_seed |-> None,
     own_previous_seed |-> None,
     neighbor_current_key_material |-> None,
     neighbor_previous_key_material |-> None,
     own_current_neighbor_current |-> None,
     own_current_neighbor_previous |-> None,
     own_previous_neighbor_current |-> None,
     own_previous_neighbor_previous |-> None]

\* A variant that installs the seed and leaves the streams of the seed it
\* replaces where they were.
push_own_seed_in_place(self, seed, upcoming_packets) ==
    Bind([self EXCEPT !.own_previous_seed = self.own_current_seed,
                      !.own_current_seed = Some(seed)],
         LAMBDA moved :
    Bind(maybe_new(moved.own_current_seed, moved.neighbor_current_key_material,
                   moved.neighbor, moved.neighbor_is_lexico_later, upcoming_packets),
         LAMBDA first :
    Bind(maybe_new(moved.own_current_seed, moved.neighbor_previous_key_material,
                   moved.neighbor, moved.neighbor_is_lexico_later, first.upcoming_packets),
         LAMBDA second :
    [streams |-> [moved EXCEPT !.own_current_neighbor_current = first.stream,
                               !.own_current_neighbor_previous = second.stream],
     upcoming_packets |-> second.upcoming_packets])))

\* push_own_seed and push_neighbor_key_material give the cluster and
\* upcoming_packets as they leave them.
push_own_seed(self, seed, upcoming_packets) ==
    Bind([self EXCEPT !.own_previous_seed = self.own_current_seed,
                      !.own_current_seed = Some(seed),
                      !.own_previous_neighbor_current = self.own_current_neighbor_current,
                      !.own_previous_neighbor_previous = self.own_current_neighbor_previous],
         LAMBDA moved :
    Bind(maybe_new(moved.own_current_seed, moved.neighbor_current_key_material,
                   moved.neighbor, moved.neighbor_is_lexico_later, upcoming_packets),
         LAMBDA first :
    Bind(maybe_new(moved.own_current_seed, moved.neighbor_previous_key_material,
                   moved.neighbor, moved.neighbor_is_lexico_later, first.upcoming_packets),
         LAMBDA second :
    [streams |-> [moved EXCEPT !.own_current_neighbor_current = first.stream,
                               !.own_current_neighbor_previous = second.stream],
     upcoming_packets |-> second.upcoming_packets])))

push_neighbor_key_material(self, neighbor_key_material, upcoming_packets) ==
    Bind([self EXCEPT !.neighbor_previous_key_material = self.neighbor_current_key_material,
                      !.neighbor_current_key_material = Some(neighbor_key_material),
                      !.own_current_neighbor_previous = self.own_current_neighbor_current,
                      !.own_previous_neighbor_previous = self.own_previous_neighbor_current],
         LAMBDA moved :
    Bind(maybe_new(moved.own_current_seed, moved.neighbor_current_key_material,
                   moved.neighbor, moved.neighbor_is_lexico_later, upcoming_packets),
         LAMBDA first :
    Bind(maybe_new(moved.own_previous_seed, moved.neighbor_current_key_material,
                   moved.neighbor, moved.neighbor_is_lexico_later, first.upcoming_packets),
         LAMBDA second :
    [streams |-> [moved EXCEPT !.own_current_neighbor_current = first.stream,
                               !.own_previous_neighbor_current = second.stream],
     upcoming_packets |-> second.upcoming_packets])))

\* StreamCluster::produce_outgoing_identifier: the name of the chosen stream,
\* preferred.or(backup), or None.
chosen_stream(self) ==
    Bind(IF self.own_current_acknowledged
         THEN <<"own_current_neighbor_current", "own_previous_neighbor_current">>
         ELSE <<"own_previous_neighbor_current", "own_current_neighbor_current">>,
         LAMBDA order :
    IF self[order[1]].some THEN Some(order[1])
    ELSE IF self[order[2]].some THEN Some(order[2])
    ELSE None)

StreamCluster_produce_outgoing_identifier(self) ==
    Bind(chosen_stream(self), LAMBDA chosen :
    IF ~chosen.some THEN Err("StreamNotReady")
    ELSE Bind(Stream_produce_outgoing_identifier(self[chosen.v].v), LAMBDA produced :
         [ok |-> TRUE,
          streams |-> [self EXCEPT ![chosen.v] = Some(produced.stream)],
          identifier |-> produced.identifier,
          keystream |-> produced.keystream]))

StreamNames ==
    <<"own_current_neighbor_current", "own_current_neighbor_previous",
      "own_previous_neighbor_current", "own_previous_neighbor_previous">>

StreamCluster_decrypt_incoming_payload(self, stream_key, packet_number, payload, checksum) ==
    Bind({i \in 1..Len(StreamNames) :
             self[StreamNames[i]].some /\ self[StreamNames[i]].v.key = stream_key},
         LAMBDA with_key :
    IF with_key = {} THEN Err("UnrecognizedPacket")
    ELSE Stream_decrypt_incoming_payload(
             self[StreamNames[CHOOSE i \in with_key : \A j \in with_key : i <= j]].v,
             packet_number, payload, checksum))

\* The loops of Stream::got_incoming_packet over a batch of identifiers: the
\* packets first_number, first_number + 1, ... are added (removed), in this
\* order, each under its identifier.
RECURSIVE add_batch(_, _, _, _, _, _)
add_batch(inner, stream_with, key, identifiers, first_number, idx) ==
    IF idx > Len(identifiers) THEN inner
    ELSE add_batch(ExpectedPacketSet_add(inner,
                       ExpectedPacket(stream_with, key, first_number + idx - 1),
                       identifiers[idx]),
                   stream_with, key, identifiers, first_number, idx + 1)

RECURSIVE remove_batch(_, _, _, _, _, _)
remove_batch(inner, stream_with, key, identifiers, first_number, idx) ==
    IF idx > Len(identifiers) THEN inner
    ELSE remove_batch(ExpectedPacketSet_remove(inner,
                          ExpectedPacket(stream_with, key, first_number + idx - 1),
                          identifiers[idx]),
                      stream_with, key, identifiers, first_number, idx + 1)

\* 1u64 << bit_offset_in_mask.  A shift by 64 panics where overflow checks
\* are compiled in and shifts by 64 % 64 = 0 where they are not.
shifted_bit(bit_offset_in_mask, overflow_checks) ==
    IF bit_offset_in_mask < 64 THEN Some(bit_offset_in_mask)
    ELSE IF overflow_checks THEN None
    ELSE Some(bit_offset_in_mask % 64)

\* The window moves on: when the low 8 bits of the mask are clear or one of
\* the high 16 is.
window_moves(mask) == mask \cap (0..7) = {} \/ ~((48..63) \subseteq mask)

\* Stream::got_incoming_packet: the stream and the expected packets as it
\* leaves them, or a panic.
Stream_got_incoming_packet(stream, packet, expected_packet_set, overflow_checks) ==
    IF packet.packet_number < stream.incoming_message_mask_start
        THEN [panicked |-> FALSE, stream |-> stream, expected |-> expected_packet_set]
    ELSE Bind(packet.packet_number - stream.incoming_message_mask_start, LAMBDA offset :
    Bind(shifted_bit(offset, overflow_checks), LAMBDA bit :
    IF offset > 64 \/ ~bit.some
        THEN [panicked |-> TRUE, stream |-> stream, expected |-> expected_packet_set]
    ELSE Bind(stream.incoming_message_mask \ {bit.v}, LAMBDA mask :
    IF ~window_moves(mask)
        THEN [panicked |-> FALSE,
              stream |-> [stream EXCEPT !.incoming_message_mask = mask],
              expected |-> expected_packet_set]
    ELSE Bind(add_batch(expected_packet_set, packet.stream_with, stream.key,
                  generate_identifiers(stream, "Incoming",
                      stream.incoming_message_mask_start + 64, 8),
                  stream.incoming_message_mask_start + 64, 1), LAMBDA added :
         Bind(IF mask = {} THEN added
              ELSE remove_batch(added, packet.stream_with, stream.key,
                       generate_identifiers(stream, "Incoming",
                           stream.incoming_message_mask_start, 8),
                       stream.incoming_message_mask_start, 1), LAMBDA cleared :
         [panicked |-> FALSE,
          stream |-> [stream EXCEPT
                         !.incoming_message_mask =
                             {b - 8 : b \in {c \in mask : c >= 8}} \cup (56..63),
                         !.incoming_message_mask_start = @ + 8],
          expected |-> cleared])))))

\* The loop of StreamCluster::got_incoming_packet over the four streams,
\* from the idx-th on: every stream with the key of the packet is told.
RECURSIVE tell_streams(_, _, _, _, _)
tell_streams(self, packet, upcoming, overflow_checks, idx) ==
    IF idx > Len(StreamNames)
        THEN [panicked |-> FALSE, streams |-> self, upcoming_packets |-> upcoming]
    ELSE IF ~(self[StreamNames[idx]].some /\ self[StreamNames[idx]].v.key = packet.stream_key)
        THEN tell_streams(self, packet, upcoming, overflow_checks, idx + 1)
    ELSE Bind(Stream_got_incoming_packet(self[StreamNames[idx]].v, packet, upcoming,
                                         overflow_checks), LAMBDA told :
         IF told.panicked
             THEN [panicked |-> TRUE, streams |-> self, upcoming_packets |-> upcoming]
         ELSE tell_streams([self EXCEPT ![StreamNames[idx]] = Some(told.stream)],
                           packet, told.expected, overflow_checks, idx + 1))

StreamCluster_got_incoming_packet(self, packet, packet_identifier, upcoming, overflow_checks) ==
    Bind(tell_streams(self, packet, upcoming, overflow_checks, 1), LAMBDA told :
    IF told.panicked THEN told
    ELSE [told EXCEPT !.upcoming_packets =
              ExpectedPacketSet_remove(told.upcoming_packets, packet, packet_identifier)])

\* ---- content_packet.rs.  A packet is a record; len is its length in bytes.
\* A u32 is the pair <<high, low>> of its 16-bit halves, so that the whole
\* range of the length field is kept; the operations below take a second
\* operand below HalfLimit, which the buffer lengths used here respect.
Limb == 256 * 256
HalfLimit == Limb \div 2
u32(n) == <<n \div Limb, n % Limb>>
u32_MAX == <<Limb - 1, Limb - 1>>

\* x - n for n <= x, x / d and x % d.
u32_sub(x, n) == IF x[2] >= n THEN <<x[1], x[2] - n>> ELSE <<x[1] - 1, x[2] + Limb - n>>
u32_div(x, d) == <<x[1] \div d, ((x[1] % d) * Limb + x[2]) \div d>>
u32_rem(x, d) == ((x[1] % d) * Limb + x[2]) % d

\* x * d and x + n as the machine computes them: the low 32 bits, and
\* whether the result left the 32 bits.
u32_mul(x, d) ==
    LET low == x[2] * d
        high == x[1] * d + low \div Limb
    IN  [overflow |-> high >= Limb, v |-> <<high % Limb, low % Limb>>]
u32_add(x, n) ==
    LET low == x[2] + n
        high == x[1] + low \div Limb
    IN  [overflow |-> high >= Limb, v |-> <<high % Limb, low % Limb>>]

PAYLOAD_START == 28
ContentPacketMinimum == 8 + 4 + 16 + 0

\* A variant that takes the length field modulo remaining_words.
decode_modulo_remaining_words(packet) ==
    IF packet.len < ContentPacketMinimum THEN Err("InternalError")
    ELSE Bind((packet.len - PAYLOAD_START) \div 4, LAMBDA remaining_words :
         Bind(IF remaining_words = 0 THEN 0
              ELSE u32_rem(packet.length_words_plus, remaining_words),
              LAMBDA payload_words :
         [ok |-> TRUE,
          packet_identifier |-> packet.packet_identifier,
          encrypted_payload |-> Take(packet.encrypted_payload, payload_words * 4),
          checksum |-> packet.checksum]))

ContentPacket_decode(packet) ==
    IF packet.len < ContentPacketMinimum THEN Err("InternalError")
    ELSE Bind((packet.len - PAYLOAD_START) \div 4, LAMBDA remaining_words :
         Bind(u32_rem(packet.length_words_plus, 1 + remaining_words), LAMBDA payload_words :
         [ok |-> TRUE,
          packet_identifier |-> packet.packet_identifier,
          encrypted_payload |-> Take(packet.encrypted_payload, payload_words * 4),
          checksum |-> packet.checksum]))

\* The exclusive upper end of rng.gen_range(0, ...) in prepare.
length_extra_limit(payload_words, remaining_words) ==
    u32_div(u32_sub(u32_MAX, payload_words), remaining_words + 1)

\* payload_words + length_extra_n * (remaining_words + 1)
encoded_length(payload_words, length_extra_n, remaining_words) ==
    Bind(u32_mul(length_extra_n, remaining_words + 1), LAMBDA product :
    Bind(u32_add(product.v, payload_words), LAMBDA sum :
    [overflow |-> product.overflow \/ sum.overflow, v |-> sum.v]))

\* ContentPacket::prepare and the writes of send_to into the writer: the
\* packet of buffer_len bytes; length_extra_n is the number gen_range gave.
\* The length field holds the low 32 bits of the encoded length.
ContentPacket_prepare(buffer_len, payload_length, packet_identifier, length_extra_n) ==
    IF buffer_len < PAYLOAD_START + payload_length THEN Err("InternalError")
    ELSE IF payload_length % 4 # 0 THEN Err("InternalError")
    ELSE Bind((buffer_len - PAYLOAD_START) \div 4, LAMBDA remaining_words :
         [ok |-> TRUE,
          kind |-> "content",
          len |-> buffer_len,
          packet_identifier |-> packet_identifier,
          length_words_plus |->
              encoded_length(payload_length \div 4, length_extra_n, remaining_words).v,
          encrypted_payload |-> <<>>,
          checksum |-> <<>>])

\* ---- vm.rs
MEMORY_MAX == 1024 * 1024

RECURSIVE words_to_le_bytes(_)
words_to_le_bytes(words) ==
    IF Len(words) = 0 THEN <<>>
    ELSE <<words[1] % 256, (words[1] \div 256) % 256, (words[1] \div 65536) % 256,
           (words[1] \div 16777216) % 256>> \o words_to_le_bytes(Drop(words, 1))

\* The inverse conversion agent.rs calls on the decrypted payload.
le_bytes_to_words(bytes) ==
    [w \in 1..(Len(bytes) \div 4) |->
        bytes[4 * w - 3] + 256 * bytes[4 * w - 2] + 65536 * bytes[4 * w - 1]
            + 16777216 * bytes[4 * w]]

\* Vm::new: memory holds the words given; every word after them is 0.
Vm_new(initial_memory) ==
    IF Len(initial_memory) > MEMORY_MAX THEN Err("ProgramTooLarge")
    ELSE Ok([memory |-> initial_memory, pc |-> 0, compute_cost |-> 0])

\* ---- agent.rs.  An Agent is a record; environment is the DummyEnvironment
\* of the tests, whose rng is the count of the draws made from it.
CONTENTFUL_PACKET_THRESHOLD == 8 + 4 + 16 + 200
InitiationPacketLen == 32 + 104 + 16
Timestamp == 123456

Agent_new(identity_seed, rng_seed, location) ==
    [identity |-> keypair(identity_seed).public,
     private_key |-> keypair(identity_seed).private,
     neighbors |-> [identity \in {} |-> 0],
     upcoming_packets |-> ExpectedPacketSet_new,
     environment |-> [rng |-> [seed |-> rng_seed, draws |-> 0],
                      outgoing |-> <<>>,
                      location |-> location,
                      tasks |-> <<>>]]

\* environment.fill_bytes(&mut bs) for a seed: the agent after the draw and
\* the seed drawn.
fill_seed(agent) ==
    [agent |-> [agent EXCEPT !.environment.rng.draws = @ + 1],
     seed |-> 100 * agent.environment.rng.seed + agent.environment.rng.draws]

environment_send(agent, address, packet) ==
    [agent EXCEPT !.environment.outgoing = Append(@, <<address, packet>>)]

Signable(timestamp, sender, recipient, key_material, symmetric_key) ==
    <<timestamp, sender, recipient, key_material, symmetric_key>>

form_initiation_packet(agent, neighbor_identity, own_seed) ==
    Bind(keypair(own_seed), LAMBDA stream_keys :
    Bind(ed25519_exchange(neighbor_identity, stream_keys.private), LAMBDA symmetric_key :
    Bind(Signable(Timestamp, agent.identity, neighbor_identity, stream_keys.public,
                  symmetric_key), LAMBDA inner :
    Bind(AeadEncrypt(symmetric_key, "ffffffffffffffff",
                     <<[sender |-> agent.identity, timestamp |-> Timestamp,
                        signature |-> <<inner, agent.private_key>>]>>), LAMBDA sealed :
    [kind |-> "initiation",
     len |-> InitiationPacketLen,
     ephemeral_public_key |-> stream_keys.public,
     inner |-> sealed.encrypted,
     authenticator |-> sealed.tag]))))

\* ed25519::verify of a signature made by ed25519::signature.
ed25519_verify(message, public_key, signature) ==
    signature = <<message, <<"private", public_key[2]>>>>

add_neighbor(agent, identity, address, streams, upcoming_packets) ==
    [agent EXCEPT !.neighbors = [i \in DOMAIN @ \cup {identity} |->
                                    IF i = identity
                                    THEN [address |-> address, streams |-> streams]
                                    ELSE @[i]],
                  !.upcoming_packets = upcoming_packets]

\* The handlers give the agent as they leave it and their Result.
Handled(agent, result) == [agent |-> agent, result |-> result]

initiate_stream_with(agent0, neighbor_identity, neighbor_location) ==
    Bind(fill_seed(agent0), LAMBDA drawn :
    Bind(is_greater_than(neighbor_identity, agent0.identity), LAMBDA neighbor_is_later :
    IF ~neighbor_is_later.ok THEN Handled(drawn.agent, Err("CannotStreamWithSelf"))
    ELSE Bind(push_own_seed(StreamCluster_new(neighbor_identity, neighbor_is_later.v),
                            drawn.seed, drawn.agent.upcoming_packets), LAMBDA n :
         Handled(add_neighbor(
                     environment_send(drawn.agent, neighbor_location,
                         form_initiation_packet(drawn.agent, neighbor_identity, drawn.seed)),
                     neighbor_identity, neighbor_location, n.streams, n.upcoming_packets),
                 Ok(<<>>)))))

\* A variant that notes the source of an initiation packet of a neighbor it
\* knows before it has verified the signature.
handle_initiation_noting_source(agent, source, packet) ==
    IF packet.len < InitiationPacketLen THEN Handled(agent, Err("InternalError"))
    ELSE
    Bind(ed25519_exchange(packet.ephemeral_public_key, agent.private_key),
         LAMBDA symmetric_key :
    Bind(AeadDecrypt(symmetric_key, "ffffffffffffffff", packet.inner, packet.authenticator),
         LAMBDA inner_decrypted :
    IF ~inner_decrypted.some THEN Handled(agent, Err("BadChecksum"))
    ELSE IF inner_decrypted.v[1].sender \in DOMAIN agent.neighbors
        THEN Handled([agent EXCEPT !.neighbors[inner_decrypted.v[1].sender].address = source],
                     Err("BadSignature"))
    ELSE Handled(agent, Err("BadSignature"))))

handle_initiation_packet(agent, source, packet) ==
    IF packet.len < InitiationPacketLen THEN Handled(agent, Err("InternalError"))
    ELSE
    Bind(ed25519_exchange(packet.ephemeral_public_key, agent.private_key),
         LAMBDA symmetric_key :
    Bind(AeadDecrypt(symmetric_key, "ffffffffffffffff", packet.inner, packet.authenticator),
         LAMBDA inner_decrypted :
    IF ~inner_decrypted.some THEN Handled(agent, Err("BadChecksum"))
    ELSE
    Bind(inner_decrypted.v[1], LAMBDA inner_parts :
    IF ~ed25519_verify(Signable(inner_parts.timestamp, inner_parts.sender, agent.identity,
                                packet.ephemeral_public_key, symmetric_key),
                       inner_parts.sender, inner_parts.signature)
        THEN Handled(agent, Err("BadSignature"))
    ELSE IF inner_parts.sender \in DOMAIN agent.neighbors
        THEN Bind(push_neighbor_key_material(agent.neighbors[inner_parts.sender].streams,
                                             packet.ephemeral_public_key,
                                             agent.upcoming_packets), LAMBDA n :
             Handled(add_neighbor(agent, inner_parts.sender, source, n.streams,
                                  n.upcoming_packets), Ok(<<>>)))
    ELSE
    Bind(is_greater_than(inner_parts.sender, agent.identity), LAMBDA neighbor_is_later :
    IF ~neighbor_is_later.ok THEN Handled(agent, Err("CannotStreamWithSelf"))
    ELSE
    Bind(fill_seed(agent), LAMBDA drawn :
    Bind(environment_send(drawn.agent, source,
             form_initiation_packet(drawn.agent, inner_parts.sender, drawn.seed)),
         LAMBDA sent :
    Bind(push_neighbor_key_material(
             StreamCluster_new(inner_parts.sender, neighbor_is_later.v),
             packet.ephemeral_public_key, sent.upcoming_packets), LAMBDA first :
    Bind(push_own_seed(first.streams, drawn.seed, first.upcoming_packets), LAMBDA n :
    Handled(add_neighbor(sent, inner_parts.sender, source, n.streams, n.upcoming_packets),
            Ok(<<>>))))))))))

\* The for loop of handle_contentful_packet over the expected packets from
\* idx on: the one found with its payload, None, or the InternalError.
RECURSIVE find_expected(_, _, _, _)
find_expected(agent, expected, parts, idx) ==
    IF idx > Len(expected) THEN Ok(None)
    ELSE IF expected[idx].stream_with \notin DOMAIN agent.neighbors THEN Err("InternalError")
    ELSE Bind(StreamCluster_decrypt_incoming_payload(
                  agent.neighbors[expected[idx].stream_with].streams,
                  expected[idx].stream_key, expected[idx].packet_number,
                  parts.encrypted_payload, parts.checksum), LAMBDA payload :
         IF payload.ok THEN Ok(Some([expected_packet |-> expected[idx], payload |-> payload.v]))
         ELSE find_expected(agent, expected, parts, idx + 1))

handle_contentful_packet(agent, packet) ==
    Bind(ContentPacket_decode(packet), LAMBDA parts :
    IF ~parts.ok THEN Handled(agent, parts)
    ELSE
    Bind(find_expected(agent, ExpectedPacketSet_iter(agent.upcoming_packets,
                                                     parts.packet_identifier), parts, 1),
         LAMBDA found :
    IF ~found.ok THEN Handled(agent, found)
    ELSE IF ~found.v.some THEN Handled(agent, Err("UnrecognizedPacket"))
    ELSE
    Bind([agent EXCEPT !.upcoming_packets =
              ExpectedPacketSet_remove(@, found.v.v.expected_packet, parts.packet_identifier)],
         LAMBDA removed :
    Bind(Vm_new(le_bytes_to_words(found.v.v.payload)), LAMBDA vm :
    IF ~vm.ok THEN Handled(removed, Err("VmCreationFailed"))
    ELSE Handled([removed EXCEPT !.environment.tasks =
                      Append(@, [requestor |-> found.v.v.expected_packet.stream_with,
                                 vm |-> vm.v])],
                 Ok(<<>>))))))

\* handle_packet drops the Result of the handler.
handle_packet(agent, source, packet) ==
    IF packet.len >= CONTENTFUL_PACKET_THRESHOLD
    THEN handle_contentful_packet(agent, packet).agent
    ELSE handle_initiation_packet(agent, source, packet).agent

\* send_to; length_extra_n is what the environment's gen_range gives to
\* ContentPacket::prepare, which draws from the rng twice once the lengths
\* have passed its checks.
send_to(agent, neighbor, payload, length_extra_n) ==
    IF neighbor \notin DOMAIN agent.neighbors THEN Handled(agent, Err("NotANeighbor"))
    ELSE
    Bind(StreamCluster_produce_outgoing_identifier(agent.neighbors[neighbor].streams),
         LAMBDA produced :
    IF ~produced.ok THEN Handled(agent, produced)
    ELSE
    Bind([agent EXCEPT !.neighbors[neighbor].streams = produced.streams], LAMBDA produced_in :
    Bind(ContentPacket_prepare(Len(payload) + CONTENTFUL_PACKET_THRESHOLD, Len(payload),
                               produced.identifier, length_extra_n), LAMBDA packet_writer :
    IF ~packet_writer.ok THEN Handled(produced_in, packet_writer)
    ELSE
    Bind([produced_in EXCEPT !.environment.rng.draws = @ + 2], LAMBDA advanced :
    Bind(AeadEncrypt(produced.keystream.key, produced.keystream.nonce, payload),
         LAMBDA sealed :
    Handled(environment_send(advanced, advanced.neighbors[neighbor].address,
                [kind |-> "content",
                 len |-> packet_writer.len,
                 packet_identifier |-> packet_writer.packet_identifier,
                 length_words_plus |-> packet_writer.length_words_plus,
                 encrypted_payload |-> sealed.encrypted,
                 checksum |-> sealed.tag]),
            Ok(<<>>)))))))

\* ---- the tests of agent.rs.
AgentNames == <<"a", "b">>

\* test::drain of every agent, in the order of the slice.
in_flights_of(agents) ==
    LET of(name) ==
            [i \in 1..Len(agents[name].environment.outgoing) |->
                [source |-> agents[name].environment.location,
                 destination |-> agents[name].environment.outgoing[i][1],
                 contents |-> agents[name].environment.outgoing[i][2]]]
    IN  of(AgentNames[1]) \o of(AgentNames[2])

\* The second loop of test::exchange over the packets in flight from idx on.
RECURSIVE deliver(_, _, _)
deliver(agents, in_flights, idx) ==
    IF idx > Len(in_flights) THEN agents
    ELSE deliver([name \in DOMAIN agents |->
                     IF agents[name].environment.location = in_flights[idx].destination
                     THEN handle_packet(agents[name], in_flights[idx].source,
                                        in_flights[idx].contents)
                     ELSE agents[name]],
                 in_flights, idx + 1)

exchange(agents) ==
    deliver([name \in DOMAIN agents |-> [agents[name] EXCEPT !.environment.outgoing = <<>>]],
            in_flights_of(agents), 1)

(***************************************************************************)
(* Each specification drives one harness; the variables of the others keep *)
(* these values.                                                           *)
(***************************************************************************)
SerIdle ==
    /\ ser_pc = "idle"
    /\ ser_noun = from_u8(0)
    /\ ser_max = 0
    /\ ser_buf = NoResult
    /\ ser_back = NoResult
    /\ ser_again = NoResult

EvIdle ==
    /\ ev_pc = "idle"
    /\ ev_kind = "none"
    /\ ev_expr = from_u8(0)
    /\ ev_limit = 0
    /\ ev_result = NoResult
    /\ ev_storage = {}
    /\ ev_ticks = 0
    /\ ev_max_depth = 0
    /\ ev_underflow = FALSE
    /\ ev_stored = {}
    /\ ev_arg = from_u8(0)

LispIdle ==
    /\ lisp_pc = "idle"
    /\ lisp_kind = "none"
    /\ lisp_arg = <<>>
    /\ lisp_result = NoResult

NetIdle ==
    /\ net_pc = "idle"
    /\ net_agents = <<>>
    /\ net_sender = "none"
    /\ net_rounds = 0
    /\ net_sent = 0
    /\ net_handed = <<>>
    /\ net_stray = None

ClIdle ==
    /\ cl_pc = "idle"
    /\ cl_clusters = <<>>
    /\ cl_upcoming = <<>>
    /\ cl_wire = None
    /\ cl_sent = {}
    /\ cl_last = [op |-> "idle"]
    /\ cl_pushes = 0

PkIdle ==
    /\ pk_pc = "idle"
    /\ pk_in = <<>>
    /\ pk_packet = NoResult
    /\ pk_back = NoResult

(***************************************************************************)
(* The serialization harness: a Noun is drawn, serialized with a maximum   *)
(* length, and the bytes are deserialized.                                 *)
(***************************************************************************)
\* Atom contents: byte i is seed + 31 * (i - 1) mod 256, so that a shifted or
\* reversed decoding differs from the original.
Fill(len, seed) == [i \in 1..len |-> (seed + 31 * (i - 1)) % 256]

BigAtomLen == 253
AtomLens == {0, 1, 2, 4, 5, 64, 65, 127, 128, BigAtomLen}
FillSeeds == {0, 7, 189, 190, 255}
HalfLens == {1, 5, 130}

SerAtoms == {from_vec(Fill(len, seed)) : len \in AtomLens, seed \in FillSeeds}
SerHalves == {from_vec(Fill(len, seed)) : len \in HalfLens, seed \in {7, 190}}
SerNouns ==
    SerAtoms
    \cup {new_cell(x, y) : x \in SerHalves, y \in SerHalves}
    \cup {new_cell(new_cell(x, y), x) : x \in SerHalves, y \in {from_u8(7)}}

SerMaxLens == {100, 1000000}

SerInit ==
    /\ ser_pc = "start"
    /\ ser_noun \in SerNouns
    /\ ser_max \in SerMaxLens
    /\ ser_buf = NoResult
    /\ ser_back = NoResult
    /\ ser_again = NoResult
    /\ EvIdle
    /\ LispIdle
    /\ NetIdle
    /\ ClIdle
    /\ PkIdle

Serialize ==
    /\ ser_pc = "start"
    /\ ser_buf' = serialize(ser_noun, ser_max)
    /\ ser_pc' = "serialized"
    /\ UNCHANGED <<ser_noun, ser_max, ser_back, ser_again>>
    /\ UNCHANGED <<ev_vars, lisp_vars, net_vars, cl_vars, pk_vars>>

Deserialize ==
    /\ ser_pc = "serialized"
    /\ ser_buf.ok
    /\ ser_back' = deserialize(ser_buf.v)
    /\ ser_pc' = "deserialized"
    /\ UNCHANGED <<ser_noun, ser_max, ser_buf, ser_again>>
    /\ UNCHANGED <<ev_vars, lisp_vars, net_vars, cl_vars, pk_vars>>

SerNext == Serialize \/ Deserialize

(***************************************************************************)
(* The evaluator harness: expressions are evaluated with eval, one after   *)
(* another, against one side effect engine whose storage persists, as the  *)
(* tests of vm/src/eval.rs do with TestSideEffectEngine.                   *)
(***************************************************************************)
u8(x) == from_u8(x)
op(opcode, argument) == new_cell(from_u8(opcode), argument)
pair(a, b) == new_cell(a, b)

EvInit ==
    /\ ev_pc = "ready"
    /\ ev_kind = "none"
    /\ ev_expr = from_u8(0)
    /\ ev_limit = 0
    /\ ev_result = NoResult
    /\ ev_storage = {}
    /\ ev_ticks = 0
    /\ ev_max_depth = 0
    /\ ev_underflow = FALSE
    /\ ev_stored = {}
    /\ ev_arg = from_u8(0)
    /\ SerIdle
    /\ LispIdle
    /\ NetIdle
    /\ ClIdle
    /\ PkIdle

\* One call of eval on the engine, and what the harness records of it.
Evaluate(kind, expression, tick_limit, arg) ==
    \E r \in {eval(expression, ev_storage, tick_limit)} :
        /\ ev_pc' = "done"
        /\ ev_kind' = kind
        /\ ev_expr' = expression
        /\ ev_limit' = tick_limit
        /\ ev_result' = EvalResult(r)
        /\ ev_storage' = r.c.storage
        /\ ev_ticks' = r.c.ticks
        /\ ev_max_depth' = r.c.max_depth
        /\ ev_underflow' = r.c.underflow
        /\ ev_arg' = arg

\* --- AXIS: test axis_op, a subject and an index atom or cell.
AxisSubjects ==
    {u8(99),
     pair(u8(98), u8(99)),
     tuple_as_noun(<<u8(1), u8(2), u8(3), u8(4)>>),
     pair(pair(pair(u8(1), u8(2)), u8(3)), u8(4)),
     pair(pair(u8(1), pair(u8(2), u8(3))), pair(pair(u8(4), u8(5)), u8(6))),
     tuple_as_noun([i \in 1..12 |-> u8(i)])}

AxisIndexBytes ==
    {<<>>, <<0>>, <<0, 0>>, <<1, 0>>, <<2, 0, 0>>, <<0, 1>>, <<1, 1>>, <<255, 7>>,
     <<0, 0, 1>>, <<3, 0, 0, 0, 0>>, <<0, 0, 0, 0, 0>>}
        \cup {<<b>> : b \in 1..15}

AxisIndices ==
    {from_vec(bs) : bs \in AxisIndexBytes}
        \cup {slice_as_noun(bs) : bs \in AxisIndexBytes}
        \cup {pair(u8(0), u8(1)), pair(u8(2), pair(u8(1), u8(1)))}

EvalAxis ==
    /\ ev_pc = "ready"
    /\ \E subject \in AxisSubjects, index \in AxisIndices :
          Evaluate("axis", pair(subject, op(AXIS, index)), FullTicks, index)
    /\ UNCHANGED ev_stored
    /\ UNCHANGED <<ser_vars, lisp_vars, net_vars, cl_vars, pk_vars>>

\* --- IS_EQUAL: test equal_op, on two atoms built from byte sequences by
\* Noun::from_vec / from_slice / from_u8 or by as_noun of a byte slice.
EqualBytes == {<<>>, <<0>>, <<5>>, <<5, 0>>, <<1, 2, 3, 4>>, <<1, 2, 3, 4, 5>>}

EqualAtoms ==
    {from_vec(bs) : bs \in EqualBytes} \cup {slice_as_noun(bs) : bs \in EqualBytes}

EvalEqual ==
    /\ ev_pc = "ready"
    /\ \E a \in EqualAtoms, b \in EqualAtoms :
          Evaluate("equal", pair(pair(a, b), op(IS_EQUAL, op(AXIS, u8(1)))),
                   FullTicks, pair(a, b))
    /\ UNCHANGED ev_stored
    /\ UNCHANGED <<ser_vars, lisp_vars, net_vars, cl_vars, pk_vars>>

\* --- LESS both ways and IS_EQUAL on the same two atoms, in one formula
\* whose result is the cell [LESS(a,b) [LESS(b,a) IS_EQUAL(a,b)]].
CompareBytes ==
    {<<>>, <<0>>, <<5>>, <<6>>, <<5, 0>>, <<0, 5>>, <<5, 6>>, <<6, 5>>, <<0, 0>>,
     <<1, 2, 3, 4>>, <<1, 2, 3, 4, 5>>, <<1, 2, 3, 4, 0>>, <<0, 1, 2, 3, 4>>,
     <<2, 2, 3, 4, 5>>}

CompareAtoms ==
    {from_vec(bs) : bs \in CompareBytes} \cup {slice_as_noun(bs) : bs \in CompareBytes}

CompareFormula ==
    tuple_as_noun(<<op(LESS, op(AXIS, u8(1))),
                    op(LESS, pair(op(AXIS, u8(3)), op(AXIS, u8(2)))),
                    op(IS_EQUAL, op(AXIS, u8(1)))>>)

EvalCompare ==
    /\ ev_pc = "ready"
    /\ \E a \in CompareAtoms, b \in CompareAtoms :
          Evaluate("compare", pair(pair(a, b), CompareFormula), FullTicks, pair(a, b))
    /\ UNCHANGED ev_stored
    /\ UNCHANGED <<ser_vars, lisp_vars, net_vars, cl_vars, pk_vars>>

\* --- ADD: test add_endian through eval, on atoms of one to three bytes
\* with and without a carry out of a byte and out of the longer operand.
AddBytes ==
    {<<0>>, <<1>>, <<3>>, <<255>>, <<1, 2>>, <<255, 0>>, <<0, 255>>, <<255, 255>>,
     <<1, 0>>, <<128, 128>>, <<16, 128, 32>>, <<0, 128, 0>>, <<255, 255, 255>>}

AddAtoms == {from_vec(bs) : bs \in AddBytes}

EvalAdd ==
    /\ ev_pc = "ready"
    /\ \E a \in AddAtoms, b \in AddAtoms :
          Evaluate("add", pair(pair(a, b), op(ADD, op(AXIS, u8(1)))), FullTicks, pair(a, b))
    /\ UNCHANGED ev_stored
    /\ UNCHANGED <<ser_vars, lisp_vars, net_vars, cl_vars, pk_vars>>

\* --- equal called as test giant_equality calls it: on a Noun doubled some
\* times, the same Noun with one leaf changed, or a Noun of another shape,
\* with a budget below, at and above the number of node pairs.
MaxDoublings == 5

RECURSIVE Doubled(_)
Doubled(d) == IF d = 0 THEN from_u8(0) ELSE new_cell(Doubled(d - 1), Doubled(d - 1))

\* Doubled(d) with its leaf number k, counted from 0 on the left, set to 1.
RECURSIVE Marked(_, _)
Marked(d, k) ==
    IF d = 0 THEN from_u8(1)
    ELSE IF k < Pow2(d - 1) THEN new_cell(Marked(d - 1, k), Doubled(d - 1))
    ELSE new_cell(Doubled(d - 1), Marked(d - 1, k - Pow2(d - 1)))

EqualTreeNouns ==
    {Doubled(d) : d \in 0..MaxDoublings}
        \cup {Marked(MaxDoublings, k) : k \in {0, 1, 5, Pow2(MaxDoublings - 1), Pow2(MaxDoublings) - 1}}
        \cup {Marked(2, 1), new_cell(Doubled(3), from_u8(0)), new_cell(from_u8(0), Doubled(3))}

EqualBudgets == {0, 1, 2, 3, 7, 10, 40, Pow2(MaxDoublings + 1) - 2, Pow2(MaxDoublings + 1) - 1, 1000}

EqualTrees ==
    /\ ev_pc = "ready"
    /\ \E a \in EqualTreeNouns, b \in EqualTreeNouns, tick_limit \in EqualBudgets :
       \E r \in {equal(a, b, Computation(tick_limit, {}))} :
          /\ ev_pc' = "done"
          /\ ev_kind' = "trees"
          /\ ev_arg' = pair(a, b)
          /\ ev_limit' = tick_limit
          /\ ev_result' = IF r.ok THEN Ok(r.v) ELSE Err("CostError")
          /\ ev_ticks' = r.c.ticks
          /\ ev_underflow' = r.c.underflow
    /\ UNCHANGED <<ev_expr, ev_storage, ev_max_depth, ev_stored>>
    /\ UNCHANGED <<ser_vars, lisp_vars, net_vars, cl_vars, pk_vars>>

\* --- reshape called as the tests cut, join, join_with_empty, rearrange and
\* too_short_input call it, on their data and structures and on some more.
ReshapeData ==
    {slice_as_noun(<<1, 2, 3, 4, 5>>),
     pair(slice_as_noun(<<1, 2>>), slice_as_noun(<<3, 4, 5>>)),
     tuple_as_noun(<<slice_as_noun(<<1, 2>>), slice_as_noun(<<>>),
                     slice_as_noun(<<3, 4, 5>>), slice_as_noun(<<>>)>>),
     pair(pair(u8(1), slice_as_noun(<<2, 3>>)), u8(4)),
     u8(7),
     slice_as_noun(<<>>)}

ReshapeStructures ==
    {u8(0), u8(1), u8(2), u8(4), u8(5), u8(6),
     pair(u8(2), u8(3)), pair(u8(3), u8(2)), pair(u8(5), u8(0)),
     pair(u8(1), pair(u8(2), u8(2))), pair(pair(u8(1), u8(1)), u8(1)),
     from_vec(<<3, 0>>)}

ReshapeNouns ==
    /\ ev_pc = "ready"
    /\ \E data \in ReshapeData, structure \in ReshapeStructures :
       \E r \in {reshape(data, structure, Computation(FullTicks, {}), FullTicks)} :
          /\ ev_pc' = "done"
          /\ ev_kind' = "reshape"
          /\ ev_arg' = pair(data, structure)
          /\ ev_limit' = FullTicks
          /\ ev_result' = IF r.ok THEN Ok(r.v) ELSE Err(r.e)
          /\ ev_ticks' = r.c.ticks
          /\ ev_underflow' = r.c.underflow
    /\ UNCHANGED <<ev_expr, ev_storage, ev_max_depth, ev_stored>>
    /\ UNCHANGED <<ser_vars, lisp_vars, net_vars, cl_vars, pk_vars>>

\* --- length, the function behind SHAPE, on atoms of lengths on both sides
\* of 256 and on cells of them.
ShapeLens == {0, 1, 5, 255, 256, 258, 300}
ShapeAtoms == {from_vec(Fill(len, 7)) : len \in ShapeLens}
ShapeData ==
    ShapeAtoms
        \cup {pair(a, b) : a \in ShapeAtoms, b \in ShapeAtoms}
        \cup {pair(pair(u8(1), from_vec(Fill(256, 7))), from_vec(<<1, 2>>))}

ShapeNouns ==
    /\ ev_pc = "ready"
    /\ \E data \in ShapeData :
       \E r \in {length(data, Computation(FullTicks, {}))} :
          /\ ev_pc' = "done"
          /\ ev_kind' = "shape"
          /\ ev_arg' = data
          /\ ev_limit' = FullTicks
          /\ ev_result' = IF r.ok THEN Ok(r.v) ELSE Err("CostError")
          /\ ev_ticks' = r.c.ticks
          /\ ev_underflow' = r.c.underflow
    /\ UNCHANGED <<ev_expr, ev_storage, ev_max_depth, ev_stored>>
    /\ UNCHANGED <<ser_vars, lisp_vars, net_vars, cl_vars, pk_vars>>

\* --- The head of a formula: atoms of no byte, of one byte and of several
\* bytes, in both representations, each with an argument that is data and one
\* that is a formula, on the subject 9.
HeadBytes ==
    {<<>>, <<0>>, <<1>>, <<24>>, <<25>>, <<28>>, <<29>>, <<255>>,
     <<3, 0>>, <<0, 0>>, <<0, 1>>, <<STORE_BY_HASH, 0>>, <<25, 0>>,
     <<1, 0, 0, 0, 0>>, <<1, 0, 0, 0, 1>>, <<STORE_BY_HASH, 0, 0, 0, 0>>}

HeadAtoms == {from_vec(bs) : bs \in HeadBytes} \cup {slice_as_noun(bs) : bs \in HeadBytes}

HeadArguments == {u8(1), op(LITERAL, u8(7))}

EvalHead ==
    /\ ev_pc = "ready"
    /\ \E head \in HeadAtoms, argument \in HeadArguments :
          Evaluate("head", pair(u8(9), pair(head, argument)), FullTicks, pair(head, argument))
    /\ UNCHANGED ev_stored
    /\ UNCHANGED <<ser_vars, lisp_vars, net_vars, cl_vars, pk_vars>>

\* --- Metering: one expression per kind of debit, run under every small
\* tick limit and under the tests' limit.
SealKey == from_vec([i \in 1..32 |-> i + 3])

\* test encrypt_decrypt: the ciphertext ENCRYPT makes of the literal 21.
SealedLiteral ==
    eval(pair(SealKey, op(ENCRYPT, pair(op(AXIS, u8(1)), op(LITERAL, u8(21))))),
         {}, FullTicks).v

MeteredExpressions ==
    {\* opcode dispatch only
     pair(u8(42), pair(op(LITERAL, u8(1)), pair(op(AXIS, u8(1)), op(LITERAL, u8(3))))),
     \* equality
     pair(pair(tuple_as_noun(<<u8(1), u8(2), u8(3)>>), tuple_as_noun(<<u8(1), u8(2), u8(3)>>)),
          op(IS_EQUAL, op(AXIS, u8(1)))),
     \* shape
     pair(tuple_as_noun(<<u8(1), from_vec(<<1, 2, 3, 4, 5>>), u8(3), u8(4)>>),
          op(SHAPE, op(AXIS, u8(1)))),
     \* bytes read by reshape
     pair(pair(pair(from_vec(<<1, 2, 3, 4, 5>>), from_vec(<<6, 7>>)),
               pair(u8(3), u8(4))),
          op(RESHAPE, op(AXIS, u8(1)))),
     \* math
     pair(pair(from_vec(<<1, 2, 3, 4, 5, 6>>), from_vec(<<9, 9>>)),
          op(ADD, op(AXIS, u8(1)))),
     pair(from_vec(<<1, 2, 3, 4, 5, 6>>), op(INVERT, op(AXIS, u8(1)))),
     \* hashing
     pair(from_vec(<<1, 2, 3, 4, 5, 6>>), op(HASH, op(AXIS, u8(1)))),
     \* key derivation
     pair(u8(9), op(GENERATE_KEYPAIR, op(AXIS, u8(1)))),
     \* decryption
     pair(pair(SealKey, SealedLiteral), op(DECRYPT, op(AXIS, u8(1))))}

MaxTickLimit == 40
TickLimits == 0..MaxTickLimit \cup {FullTicks}

EvalMetered ==
    /\ ev_pc = "ready"
    /\ \E expression \in MeteredExpressions, tick_limit \in TickLimits :
          Evaluate("metered", expression, tick_limit, expression.b.a)
    /\ UNCHANGED ev_stored
    /\ UNCHANGED <<ser_vars, lisp_vars, net_vars, cl_vars, pk_vars>>

\* --- Storage by hash: test store_and_get_hash.  A value is stored with
\* STORE_BY_HASH; its hash is computed with HASH on a fresh engine, as the
\* test does, and handed to RETRIEVE_BY_HASH on the engine of the harness.
StoreValues ==
    {u8(21), from_vec(<<1, 2, 3, 4, 5>>), pair(u8(LITERAL), u8(21)),
     pair(u8(COMPOSE), u8(8)), from_vec(Fill(BigAtomLen, 0))}

HashOf(v) == eval(pair(v, op(HASH, op(AXIS, u8(1)))), {}, FullTicks)

EvalStore ==
    /\ ev_pc = "ready" \/ ev_kind \in {"store", "retrieve"}
    /\ \E v \in StoreValues :
          /\ Evaluate("store", pair(v, op(STORE_BY_HASH, op(AXIS, u8(1)))), FullTicks, v)
          /\ ev_stored' = IF ev_result'.ok THEN ev_stored \cup {v} ELSE ev_stored
    /\ UNCHANGED <<ser_vars, lisp_vars, net_vars, cl_vars, pk_vars>>

EvalRetrieve ==
    /\ ev_pc = "ready" \/ ev_kind \in {"store", "retrieve"}
    /\ \E v \in StoreValues :
          \E hash \in {HashOf(v)} :
              /\ hash.ok
              /\ Evaluate("retrieve",
                          pair(hash.v, op(RETRIEVE_BY_HASH, op(AXIS, u8(1)))),
                          FullTicks, v)
    /\ UNCHANGED ev_stored
    /\ UNCHANGED <<ser_vars, lisp_vars, net_vars, cl_vars, pk_vars>>

\* --- Loops: a countdown from n to 0 that goes round once per count through
\* the tail position of IF and of one more opcode.  The subject is
\* [formula n]; n + 0xff is n - 1 in one byte.  IS_EQUAL gives 0 while n is
\* not 0, and IF then takes its first branch, the step.
LoopCondition == op(IS_EQUAL, pair(op(AXIS, u8(3)), op(LITERAL, u8(0))))
LoopDecrement == op(ADD, pair(op(AXIS, u8(3)), op(LITERAL, u8(255))))
LoopNextSubject == pair(op(AXIS, u8(2)), LoopDecrement)

LoopStep(via) ==
    CASE via = "RECURSE" -> op(RECURSE, pair(LoopNextSubject, op(AXIS, u8(2))))
      [] via = "COMPOSE" ->
            op(COMPOSE, pair(LoopNextSubject,
                             op(RECURSE, pair(op(AXIS, u8(1)), op(AXIS, u8(2))))))
      [] via = "DEFINE" ->
            op(OP_DEFINE, pair(LoopDecrement,
                               op(RECURSE, pair(pair(op(AXIS, u8(6)), op(AXIS, u8(2))),
                                                op(AXIS, u8(6))))))
      [] via = "CALL" -> op(CALL, pair(u8(2), LoopNextSubject))

LoopFormula(via) == op(OP_IF, pair(LoopCondition, pair(LoopStep(via), op(AXIS, u8(3)))))

\* The self-calling loop lambda:
\* (let ((loop (lambda (n) (if (equal n #00) (loop (add n #ff)) n)))) (loop #n))
LoopLambda(n) ==
    Parent(<<Symbol("let"),
             Parent(<<Parent(<<Symbol("loop"),
                 Parent(<<Symbol("lambda"), Parent(<<Symbol("n")>>),
                     Parent(<<Symbol("if"),
                              Parent(<<Symbol("equal"), Symbol("n"), Literal(<<0>>)>>),
                              Parent(<<Symbol("loop"),
                                       Parent(<<Symbol("add"), Symbol("n"),
                                                Literal(<<255>>)>>)>>),
                              Symbol("n")>>)>>)>>)>>),
             Parent(<<Symbol("loop"), Literal(<<n>>)>>)>>)

LoopExpression(via, n) ==
    IF via = "lambda" THEN pair(u8(0), compile(LoopLambda(n)).v)
    ELSE pair(pair(LoopFormula(via), u8(n)), LoopFormula(via))

LoopVias == {"RECURSE", "COMPOSE", "DEFINE", "CALL", "lambda"}
MaxIter == 4

EvalLoop ==
    /\ ev_pc = "ready"
    /\ \E via \in LoopVias, n \in 0..MaxIter :
          Evaluate("loop", LoopExpression(via, n), FullTicks, [via |-> via, n |-> n])
    /\ UNCHANGED ev_stored
    /\ UNCHANGED <<ser_vars, lisp_vars, net_vars, cl_vars, pk_vars>>

(***************************************************************************)
(* The compiler harness: a program is built as the tree the parser gives   *)
(* for its text, compiled, and run on the subject 0, as the tests of       *)
(* lisp/src/compile.rs do.                                                 *)
(***************************************************************************)
\* "too low", "right" and "too high" as a string literal tokenizes them.
TooLow == <<116, 111, 111, 32, 108, 111, 119>>
Right == <<114, 105, 103, 104, 116>>
TooHigh == <<116, 111, 111, 32, 104, 105, 103, 104>>

\* (name argument ...)
Form(name, arguments) == Parent(<<Symbol(name)>> \o arguments)

\* (let ((name value) ...) body)
Let(names, values, body) ==
    Form("let", <<Parent([i \in 1..Len(names) |-> Parent(<<Symbol(names[i]), values[i]>>)]),
                  body>>)

\* (lambda (parameter ...) body)
Lambda(parameters, body) ==
    Form("lambda", <<Parent([i \in 1..Len(parameters) |-> Symbol(parameters[i])]), body>>)

\* The names x1, x2, ... and one-byte literals of the given values.
Names(prefix, count) == [i \in 1..count |-> prefix \o ToString(i)]
Literals(values) == [i \in 1..Len(values) |-> Literal(<<values[i]>>)]

\* The branches of tests::iff.
FirstBranch == 51
SecondBranch == 68

\* The values the programs bind and pass: each name gets a value of its own.
CapturedValues(k) == [i \in 1..k |-> 16 + i]
ArgumentValues(m) == [j \in 1..m |-> 32 + j]
ShadowValues(k) == [i \in 1..k |-> 144 + i]
LetValues(n) == [i \in 1..n |-> 48 + i]

\* (if (test a b) #aa #bb)
IfProgram(test) == Form("if", <<test, Literal(<<FirstBranch>>), Literal(<<SecondBranch>>)>>)

\* tests::guessing_game, with the answer and the three guesses as parameters.
GuessProgram(answer, guesses) ==
    Let(<<"answer">>, <<Literal(<<answer>>)>>,
        Let(<<"handle_guess">>,
            <<Lambda(<<"g">>,
                Form("if", <<Form("less", <<Symbol("g"), Symbol("answer")>>),
                             Literal(TooLow),
                             Form("if", <<Form("less", <<Symbol("answer"), Symbol("g")>>),
                                          Literal(TooHigh),
                                          Literal(Right)>>)>>))>>,
            List([i \in 1..Len(guesses) |->
                      Form("handle_guess", <<Literal(<<guesses[i]>>)>>)])))

\* tests::lambda_simple, third program: a lambda of the parameters p1..pm
\* made where x1..xk are bound, whose body reads one name, called where x1 is
\* bound to another value.
LambdaProgram(k, m, name) ==
    Let(<<"f">>,
        <<Let(Names("x", k), Literals(CapturedValues(k)),
              Lambda(Names("p", m), Symbol(name)))>>,
        Let(Names("x", 1), Literals(ShadowValues(1)),
            Form("f", Literals(ArgumentValues(m)))))

\* tests::let_simple: n names bound, the body reads the i-th.
LetProgram(n, i) ==
    Let(Names("a", n), Literals(LetValues(n)), Symbol(Names("a", n)[i]))

\* The items found at the paths of dense_tree_positions(n) in the tree that
\* build_into_dense_tree makes of the items 1..n, the paths turned into
\* index atoms as compile_node does for a name.
dense_tree_lookups(n) ==
    Bind(build_into_dense_tree([j \in 1..n |-> from_u8(j)]), LAMBDA tree :
    Bind(dense_tree_positions(n), LAMBDA positions :
    [i \in 1..n |-> axis(tree, from_u64_compact(positions[i]))]))

LispBytes == {0, 1, 2, 66, 255}
Guesses == {51, 66, 85}
MaxBindings == 5

LispInit ==
    /\ lisp_pc = "ready"
    /\ lisp_kind = "none"
    /\ lisp_arg = <<>>
    /\ lisp_result = NoResult
    /\ SerIdle
    /\ EvIdle
    /\ NetIdle
    /\ ClIdle
    /\ PkIdle

\* tests::compile_and_eval up to the comparison with the expected value.
Run(kind, arg, result) ==
    /\ lisp_pc' = "done"
    /\ lisp_kind' = kind
    /\ lisp_arg' = arg
    /\ lisp_result' = result
    /\ UNCHANGED <<ser_vars, ev_vars, net_vars, cl_vars, pk_vars>>

\* (if (less a b) X Y) and (if (equal a b) X Y)
LispIf ==
    /\ lisp_pc = "ready"
    /\ \E test \in {"less", "equal"}, a \in LispBytes, b \in LispBytes :
          Run("if", [test |-> test, operands |-> <<a, b>>,
                     holds |-> IF test = "less" THEN a < b ELSE a = b],
              EvalResult(compile_and_eval(
                  IfProgram(Form(test, <<Literal(<<a>>), Literal(<<b>>)>>)))))

\* (if (is_cell x) X Y)
LispIfCell ==
    /\ lisp_pc = "ready"
    /\ \E x \in {Literal(<<5>>), List(<<Literal(<<5>>), Literal(<<6>>)>>)} :
          Run("if", [test |-> "is_cell", operands |-> <<x>>, holds |-> x.k = "List"],
              EvalResult(compile_and_eval(IfProgram(Form("is_cell", <<x>>)))))

\* tests::is_cell: (is_cell x) for a literal atom or a literal cell x.
IsCellOperands ==
    {Literal(<<34, 68>>),
     Literal(<<5>>),
     List(<<Literal(<<34, 68>>), Literal(<<51>>)>>),
     List(<<List(<<Literal(<<1>>), Literal(<<2>>)>>), Literal(<<3>>)>>)}

LispIsCell ==
    /\ lisp_pc = "ready"
    /\ \E x \in IsCellOperands :
          Run("is_cell", [operand |-> x, cell |-> x.k = "List"],
              EvalResult(compile_and_eval(Form("is_cell", <<x>>))))

\* tests::noun_contains
RECURSIVE noun_contains(_, _)
noun_contains(noun, needle) ==
    IF noun = needle THEN TRUE
    ELSE IF noun.t = "Cell"
        THEN noun_contains(noun.a, needle) \/ noun_contains(noun.b, needle)
    ELSE FALSE

\* tests::axis_optimization: (let ((x1 v) ... (xn v)) (axis xi q)) with v a
\* tuple of eight items and q a literal that is neither an opcode of the
\* program nor one of the items.
AxisItems == List([j \in 1..8 |-> Literal(<<128 + j>>)])
FusedIndexBytes == {<<31>>, <<63>>, <<127>>, <<255>>, <<0, 1>>, <<255, 1>>}

FusedProgram(n, i, q) ==
    Let(Names("x", n), [j \in 1..n |-> AxisItems],
        Form("axis", <<Symbol(Names("x", n)[i]), Literal(q)>>))

\* The path the let gives its i-th name.
PathOfName(n, i) ==
    add_name_resolutions(NoNames, Names("x", n))[Names("x", n)[i]]

LispAxisFused ==
    /\ lisp_pc = "ready"
    /\ \E n \in 1..MaxBindings, q \in FusedIndexBytes : \E i \in 1..n :
       \E code \in {compile(FusedProgram(n, i, q))} :
          Run("fused",
              [q |-> q, p |-> PathOfName(n, i), code |-> code,
               formula |-> IF code.ok THEN Ok(code.v.b.b) ELSE code],
              EvalResult(compile_and_eval(FusedProgram(n, i, q))))

\* tests::axis_simple and the second half of tests::axis_optimization: the
\* object is not a name, or the index is not a literal.
UnfusedPrograms(q) ==
    {[body |-> "whole",
      ast |-> Form("axis", <<AxisItems, Literal(q)>>)],
     [body |-> "whole",
      ast |-> Form("axis", <<Form("if", <<Literal(<<0>>), AxisItems, AxisItems>>), Literal(q)>>)],
     [body |-> "let",
      ast |-> Let(<<"x", "k">>, <<AxisItems, Literal(q)>>,
                  Form("axis", <<Symbol("x"), Symbol("k")>>))],
     [body |-> "let",
      ast |-> Let(<<"x">>, <<AxisItems>>,
                  Form("axis", <<Symbol("x"), List(<<Literal(q)>>)>>))]}

LispAxisUnfused ==
    /\ lisp_pc = "ready"
    /\ \E q \in FusedIndexBytes : \E program \in UnfusedPrograms(q) :
       \E code \in {compile(program.ast)} :
          Run("unfused",
              [q |-> q, code |-> code,
               formula |-> IF ~code.ok THEN code
                           ELSE IF program.body = "let" THEN Ok(code.v.b.b)
                           ELSE Ok(code.v)],
              EvalResult(compile_and_eval(program.ast)))

\* (name a1 ... ak) for every name of native_opcode_for_name and every
\* count of literal arguments up to MaxArgc.
NativeNames ==
    {"random", "is_cell", "hash", "shape", "if", "equal", "store_by_hash",
     "retrieve_by_hash", "store_by_key", "retrieve_by_key", "generate_keypair",
     "encrypt", "decrypt", "exucrypt", "add", "invert", "xor", "less", "reshape"}
MaxArgc == 4

\* --- Nested scopes: d lets, one inside the other, each binding one name;
\* the innermost body reads the i-th name, or calls it where it is bound to
\* (lambda (p) p).
MaxNesting == 10
CallArgument == <<7>>

RECURSIVE NestedLets(_, _, _, _)
NestedLets(k, d, called, body) ==
    IF k > d THEN body
    ELSE Let(<<Names("x", d)[k]>>,
             <<IF k = called THEN Lambda(<<"p">>, Symbol("p")) ELSE Literal(<<LetValues(d)[k]>>)>>,
             NestedLets(k + 1, d, called, body))

NestedProgram(d, i, use) ==
    IF use = "call"
    THEN NestedLets(1, d, i, Form(Names("x", d)[i], <<Literal(CallArgument)>>))
    ELSE NestedLets(1, d, 0, Symbol(Names("x", d)[i]))

\* The name resolutions in the body of the d-th let.
RECURSIVE NestedNames(_)
NestedNames(d) ==
    IF d = 0 THEN NoNames
    ELSE add_name_resolutions(NestedNames(d - 1), <<Names("x", d)[d]>>)

\* The body of the d-th let in the compiled code.
RECURSIVE CompiledBody(_, _)
CompiledBody(code, d) == IF d = 0 THEN code ELSE CompiledBody(code.b.b, d - 1)

LispNested ==
    /\ lisp_pc = "ready"
    /\ \E d \in 1..MaxNesting, use \in {"name", "call"} : \E i \in 1..d :
       \E code \in {compile(NestedProgram(d, i, use))} :
          Run("nested",
              [d |-> d, i |-> i, use |-> use,
               p |-> NestedNames(d)[Names("x", d)[i]],
               emitted |-> IF ~code.ok THEN code
                           ELSE IF use = "call" THEN Ok(CompiledBody(code.v, d).b.b.b)
                           ELSE Ok(CompiledBody(code.v, d))],
              EvalResult(compile_and_eval(NestedProgram(d, i, use))))

\* --- Texts at the edges of the grammar, as the trees parse gives for them;
\* the result is that of compile alone.
EdgePrograms ==
    <<[text |-> "[]", tree |-> List(<<>>)],
      [text |-> "[#01 []]", tree |-> List(<<Literal(<<1>>), List(<<>>)>>)],
      [text |-> "(let () #01)", tree |-> Let(<<>>, <<>>, Literal(<<1>>))],
      [text |-> "(let ((f (lambda () #01))) (f))",
       tree |-> Let(<<"f">>, <<Lambda(<<>>, Literal(<<1>>))>>, Form("f", <<>>))],
      [text |-> "()", tree |-> Parent(<<>>)],
      [text |-> "(let ((x #01)) (axis x #00))",
       tree |-> Let(<<"x">>, <<Literal(<<1>>)>>,
                    Form("axis", <<Symbol("x"), Literal(<<0>>)>>))],
      [text |-> "y", tree |-> Symbol("y")],
      [text |-> "(#01)", tree |-> Parent(<<Literal(<<1>>)>>)],
      [text |-> "(g)", tree |-> Form("g", <<>>)],
      [text |-> "(let (x) x)", tree |-> Form("let", <<Parent(<<Symbol("x")>>), Symbol("x")>>)],
      [text |-> "(lambda x x)", tree |-> Form("lambda", <<Symbol("x"), Symbol("x")>>)],
      [text |-> "[#01 #02]", tree |-> List(<<Literal(<<1>>), Literal(<<2>>)>>)],
      [text |-> "(let ((f (lambda (p) p))) (f #07))",
       tree |-> Let(<<"f">>, <<Lambda(<<"p">>, Symbol("p"))>>, Form("f", <<Literal(<<7>>)>>))]>>

LispEdge ==
    /\ lisp_pc = "ready"
    /\ \E e \in 1..Len(EdgePrograms) :
          Run("edge", [text |-> EdgePrograms[e].text], compile(EdgePrograms[e].tree))

LispNative ==
    /\ lisp_pc = "ready"
    /\ \E name \in NativeNames, argc \in 0..MaxArgc :
       \E program \in {Form(name, [j \in 1..argc |-> Literal(<<j>>)])} :
          Run("native",
              [name |-> name, argc |-> argc, code |-> compile(program)],
              EvalResult(compile_and_eval(program)))

LispGuess ==
    /\ lisp_pc = "ready"
    /\ \E answer \in Guesses, g1 \in Guesses, g2 \in Guesses, g3 \in Guesses :
          Run("guess", [answer |-> answer, guesses |-> <<g1, g2, g3>>],
              EvalResult(compile_and_eval(GuessProgram(answer, <<g1, g2, g3>>))))

\* The body of the lambda reads a captured name.
LispLambdaFree ==
    /\ lisp_pc = "ready"
    /\ \E k \in 1..MaxBindings, m \in 1..MaxBindings : \E i \in 1..k :
          Run("lambda", [k |-> k, m |-> m, reads |-> "x", i |-> i],
              EvalResult(compile_and_eval(LambdaProgram(k, m, Names("x", k)[i]))))

\* The body of the lambda reads a parameter.
LispLambdaParameter ==
    /\ lisp_pc = "ready"
    /\ \E k \in 1..MaxBindings, m \in 1..MaxBindings : \E j \in 1..m :
          Run("lambda", [k |-> k, m |-> m, reads |-> "p", i |-> j],
              EvalResult(compile_and_eval(LambdaProgram(k, m, Names("p", m)[j]))))

LispLet ==
    /\ lisp_pc = "ready"
    /\ \E n \in 1..MaxBindings : \E i \in 1..n :
          Run("let", [n |-> n, i |-> i], EvalResult(compile_and_eval(LetProgram(n, i))))

DenseTree ==
    /\ lisp_pc = "ready"
    /\ \E n \in 1..MaxBindings : Run("dense", [n |-> n], dense_tree_lookups(n))

\* C1: for every Noun n whose encoded atom stream fits the maximum length,
\* deserialize(serialize(n, max)) returns Ok(n).
C1_RoundTrip ==
    ser_pc = "deserialized" => (ser_back.ok /\ NounEq(ser_back.v, ser_noun))

(***************************************************************************)
(* Specifications: one per harness; the other harnesses stay idle.         *)
(***************************************************************************)
SpecSer == SerInit /\ [][SerNext]_vars

EvNext ==
    \/ EvalAxis \/ EvalEqual \/ EvalMetered \/ EvalLoop \/ EvalStore \/ EvalRetrieve
    \/ EvalCompare \/ EvalAdd \/ EqualTrees \/ ReshapeNouns \/ ShapeNouns
    \/ EvalHead

SpecEval == EvInit /\ [][EvNext]_vars

LispNext ==
    \/ LispIf \/ LispIfCell \/ LispGuess
    \/ LispLambdaFree \/ LispLambdaParameter \/ LispLet \/ DenseTree
    \/ LispIsCell \/ LispAxisFused \/ LispAxisUnfused
    \/ LispNative
    \/ LispNested
    \/ LispEdge

SpecLisp == LispInit /\ [][LispNext]_vars

\* C2: whenever a debit made during an evaluation exceeds the remaining
\* ticks, eval ends with Err(TickLimitExceeded).
C2_UnderflowIsTickLimitExceeded ==
    (ev_pc = "done" /\ ev_underflow) => ev_result = Err("TickLimitExceeded")

\* The nesting depth the loop of this kind reaches when it goes round once.
DepthOfOneRound(via) == eval(LoopExpression(via, 1), {}, FullTicks).c.max_depth

\* C3: a program that iterates through the tail position of RECURSE, IF,
\* COMPOSE, DEFINE or CALL nests eval_on no deeper, however often it goes
\* round, than it does going round once.
C3_TailDepthConstant ==
    (ev_pc = "done" /\ ev_kind = "loop") => ev_max_depth <= DepthOfOneRound(ev_arg.via)

\* The loop lambda has gone round MaxIter times and returned the 0 it reached.
C3_LoopedMaxIter ==
    /\ ev_pc = "done"
    /\ ev_kind = "loop"
    /\ ev_arg = [via |-> "lambda", n |-> MaxIter]
    /\ ev_result = Ok(u8(0))
    /\ FullTicks - ev_ticks > 10 * MaxIter

(***************************************************************************)
(* The transport harness: test::initiate of agent.rs, with any number of    *)
(* rounds of send_to, exchange and drain_tasks after the handshake.         *)
(***************************************************************************)
Peer(name) == IF name = AgentNames[1] THEN AgentNames[2] ELSE AgentNames[1]

\* test::initiate: the payload of a round, as words.
sample_send(round) == <<287454020, 573785173 + round, 860116326>>

SampleRounds == {0, 5}
ExtraNs == {u32(0), u32(1), u32(9)}
HandshakeRounds == 2
MaxSends == 66

\* Agent::new for a and b; either may have the greater identity.
NetInit ==
    /\ net_pc = "start"
    /\ \E seeds \in {<<1, 2>>, <<2, 1>>} :
          net_agents = [name \in {AgentNames[1], AgentNames[2]} |->
                           IF name = AgentNames[1] THEN Agent_new(seeds[1], 1, name)
                           ELSE Agent_new(seeds[2], 2, name)]
    /\ net_sender = "none"
    /\ net_rounds = 0
    /\ net_sent = 0
    /\ net_handed = <<>>
    /\ net_stray = None
    /\ SerIdle
    /\ EvIdle
    /\ LispIdle
    /\ ClIdle
    /\ PkIdle

Initiate ==
    /\ net_pc = "start"
    /\ \E from \in DOMAIN net_agents :
          \E r \in {initiate_stream_with(net_agents[from], net_agents[Peer(from)].identity,
                                         net_agents[Peer(from)].environment.location)} :
              /\ r.result.ok
              /\ net_agents' = [net_agents EXCEPT ![from] = r.agent]
              /\ net_sender' = from
    /\ net_pc' = "handshake"
    /\ UNCHANGED <<net_rounds, net_sent, net_handed>>
    /\ net_stray' = None
    /\ UNCHANGED <<ser_vars, ev_vars, lisp_vars, cl_vars, pk_vars>>

ExchangeHandshake ==
    /\ net_pc = "handshake"
    /\ net_agents' = exchange(net_agents)
    /\ net_rounds' = net_rounds + 1
    /\ net_pc' = IF net_rounds' = HandshakeRounds THEN "ready" ELSE "handshake"
    /\ UNCHANGED <<net_sender, net_sent, net_handed>>
    /\ net_stray' = None
    /\ UNCHANGED <<ser_vars, ev_vars, lisp_vars, cl_vars, pk_vars>>

SendTo ==
    /\ net_pc = "ready"
    /\ net_sent < MaxSends
    /\ \E round \in SampleRounds, length_extra_n \in ExtraNs :
          \E r \in {send_to(net_agents[net_sender], net_agents[Peer(net_sender)].identity,
                            words_to_le_bytes(sample_send(round)), length_extra_n)} :
              /\ r.result.ok
              /\ net_agents' = [net_agents EXCEPT ![net_sender] = r.agent]
              /\ net_handed' = <<sample_send(round)>>
    /\ net_sent' = net_sent + 1
    /\ net_pc' = "sent"
    /\ UNCHANGED <<net_sender, net_rounds>>
    /\ net_stray' = None
    /\ UNCHANGED <<ser_vars, ev_vars, lisp_vars, cl_vars, pk_vars>>

ExchangePayload ==
    /\ net_pc = "sent"
    /\ \E exchanged \in {exchange(net_agents)} : net_agents' = exchanged
    /\ net_pc' = "exchanged"
    /\ UNCHANGED <<net_sender, net_rounds, net_sent, net_handed>>
    /\ net_stray' = None
    /\ UNCHANGED <<ser_vars, ev_vars, lisp_vars, cl_vars, pk_vars>>

\* test::drain_tasks
DrainTasks ==
    /\ net_pc = "exchanged"
    /\ net_agents' = [name \in DOMAIN net_agents |->
                         [net_agents[name] EXCEPT !.environment.tasks = <<>>]]
    /\ net_handed' = <<>>
    /\ net_pc' = "ready"
    /\ UNCHANGED <<net_sender, net_rounds, net_sent>>
    /\ net_stray' = None
    /\ UNCHANGED <<ser_vars, ev_vars, lisp_vars, cl_vars, pk_vars>>

\* Packets no agent of the test has sent to the one that handles them.  A
\* packet is given the fields of both layouts; which are read depends on
\* its length.  Bytes that come from no encryption are garbage: they fit
\* no key, no tag and no identifier.
StrayLocation == "elsewhere"
\* The ephemeral keys of whoever forges a packet.
StrayKeys == keypair(50)
GarbageKey == keypair(0).public
RawPacket(len) ==
    [kind |-> "raw", len |-> len,
     ephemeral_public_key |-> GarbageKey, inner |-> <<0>>, authenticator |-> <<0>>,
     packet_identifier |-> <<0>>, length_words_plus |-> u32(7),
     encrypted_payload |-> [i \in 1..(IF len > PAYLOAD_START THEN len - PAYLOAD_START ELSE 0)
                               |-> 0],
     checksum |-> <<0>>]

\* An initiation packet for the recipient, in the name of the sender, with
\* a fresh seed, signed with the private key of the signer.
ForgedInitiation(sender, signer_private_key, recipient) ==
    form_initiation_packet([identity |-> sender, private_key |-> signer_private_key],
                           recipient, StrayKeys.private[2])

\* A content packet that carries an identifier the agent expects and was
\* encrypted by none of its streams.
ForgedContent(identifier, len) == [RawPacket(len) EXCEPT !.packet_identifier = identifier]

StrayLens == {0, 1, InitiationPacketLen - 1, InitiationPacketLen,
              CONTENTFUL_PACKET_THRESHOLD - 1, CONTENTFUL_PACKET_THRESHOLD, 1000}

StrayPackets(agent, peer) ==
    {RawPacket(len) : len \in StrayLens}
        \cup {ForgedInitiation(peer.identity, StrayKeys.private, agent.identity),
              ForgedInitiation(peer.identity, peer.private_key, peer.identity),
              ForgedInitiation(agent.identity, agent.private_key, agent.identity),
              ForgedInitiation(agent.identity, agent.private_key, peer.identity),
              [ForgedInitiation(peer.identity, peer.private_key, agent.identity)
                  EXCEPT !.len = InitiationPacketLen - 1]}
        \cup {ForgedContent(identifier, CONTENTFUL_PACKET_THRESHOLD) :
                 identifier \in DOMAIN agent.upcoming_packets}

\* The Result handle_packet drops.
handler_result(agent, source, packet) ==
    IF packet.len >= CONTENTFUL_PACKET_THRESHOLD
    THEN handle_contentful_packet(agent, packet).result
    ELSE handle_initiation_packet(agent, source, packet).result

MaxSentAtStray == 2

\* An agent is handed a stray packet.
HandleStray ==
    /\ net_pc \in {"start", "handshake", "ready", "exchanged"}
    /\ net_sent <= MaxSentAtStray
    /\ ~net_stray.some
    /\ \E name \in DOMAIN net_agents :
          \E packet \in StrayPackets(net_agents[name], net_agents[Peer(name)]) :
              /\ net_agents' = [net_agents EXCEPT ![name] =
                                   handle_packet(net_agents[name], StrayLocation, packet)]
              /\ net_stray' = Some([who |-> name,
                                    before |-> net_agents[name],
                                    packet |-> packet,
                                    result |-> handler_result(net_agents[name],
                                                              StrayLocation, packet)])
    /\ UNCHANGED <<net_pc, net_sender, net_rounds, net_sent, net_handed>>
    /\ UNCHANGED <<ser_vars, ev_vars, lisp_vars, cl_vars, pk_vars>>

NetNext ==
    \/ Initiate
    \/ ExchangeHandshake
    \/ SendTo
    \/ ExchangePayload
    \/ DrainTasks
    \/ HandleStray

SpecNet == NetInit /\ [][NetNext]_vars

(***************************************************************************)
(* The rotation harness: test::initiate, and then the sender calls         *)
(* initiate_stream_with for the same neighbor a second time, the packets   *)
(* are exchanged, and it tries send_to, with a round of exchange after     *)
(* every try that failed.                                                  *)
(***************************************************************************)
MaxSentAtRotate == 1
MaxRetries == 3

Rotate ==
    /\ net_pc = "ready"
    /\ net_rounds = HandshakeRounds
    /\ net_sent <= MaxSentAtRotate
    /\ \E r \in {initiate_stream_with(net_agents[net_sender],
                                      net_agents[Peer(net_sender)].identity,
                                      net_agents[Peer(net_sender)].environment.location)} :
          /\ r.result.ok
          /\ net_agents' = [net_agents EXCEPT ![net_sender] = r.agent]
    /\ net_pc' = "rotating"
    /\ UNCHANGED <<net_sender, net_rounds, net_sent, net_handed, net_stray>>
    /\ UNCHANGED <<ser_vars, ev_vars, lisp_vars, cl_vars, pk_vars>>

ExchangeRotation ==
    /\ net_pc = "rotating"
    /\ \E exchanged \in {exchange(net_agents)} : net_agents' = exchanged
    /\ net_rounds' = net_rounds + 1
    /\ net_pc' = IF net_rounds' = 2 * HandshakeRounds THEN "rotated" ELSE "rotating"
    /\ UNCHANGED <<net_sender, net_sent, net_handed, net_stray>>
    /\ UNCHANGED <<ser_vars, ev_vars, lisp_vars, cl_vars, pk_vars>>

TrySendTo ==
    /\ net_pc = "rotated"
    /\ \E round \in SampleRounds, length_extra_n \in ExtraNs :
          \E r \in {send_to(net_agents[net_sender], net_agents[Peer(net_sender)].identity,
                            words_to_le_bytes(sample_send(round)), length_extra_n)} :
              /\ net_agents' = [net_agents EXCEPT ![net_sender] = r.agent]
              /\ net_handed' = IF r.result.ok THEN <<sample_send(round)>> ELSE net_handed
              /\ net_sent' = IF r.result.ok THEN net_sent + 1 ELSE net_sent
              /\ net_pc' = IF r.result.ok THEN "sent"
                           ELSE IF r.result.e = "StreamNotReady" THEN "not ready"
                           ELSE "failed"
    /\ UNCHANGED <<net_sender, net_rounds, net_stray>>
    /\ UNCHANGED <<ser_vars, ev_vars, lisp_vars, cl_vars, pk_vars>>

ExchangeAgain ==
    /\ net_pc = "not ready"
    /\ net_rounds < 2 * HandshakeRounds + MaxRetries
    /\ \E exchanged \in {exchange(net_agents)} : net_agents' = exchanged
    /\ net_rounds' = net_rounds + 1
    /\ net_pc' = "rotated"
    /\ UNCHANGED <<net_sender, net_sent, net_handed, net_stray>>
    /\ UNCHANGED <<ser_vars, ev_vars, lisp_vars, cl_vars, pk_vars>>

RotNext ==
    \/ Initiate
    \/ ExchangeHandshake
    \/ SendTo
    \/ ExchangePayload
    \/ DrainTasks
    \/ Rotate
    \/ ExchangeRotation
    \/ TrySendTo
    \/ ExchangeAgain

\* After the second call the test goes on exchanging and trying: none of
\* these steps is put off forever.
SpecRotate ==
    /\ NetInit
    /\ [][RotNext]_vars
    /\ WF_vars(ExchangeRotation)
    /\ WF_vars(TrySendTo)
    /\ WF_vars(ExchangeAgain)
    /\ WF_vars(ExchangePayload)

(***************************************************************************)
(* The replay harness: test::initiate, where whoever carries the packets   *)
(* keeps the content packet of a round and the initiation packet of the    *)
(* sender and hands them to the receiver again.                            *)
(***************************************************************************)
MaxSentAtReplay == 2
MaxReplays == 2
MaxRepeats == 2

\* The initiation packet the sender sent for its current seed.
InitiationOf(agent, neighbor_identity) ==
    form_initiation_packet(agent, neighbor_identity,
                           agent.neighbors[neighbor_identity].streams.own_current_seed.v)

\* test::exchange, with the content packet in flight kept.
ExchangeKept ==
    /\ net_pc = "sent"
    /\ net_sent <= MaxSentAtReplay
    /\ \E exchanged \in {exchange(net_agents)} : net_agents' = exchanged
    /\ net_stray' = Some([who |-> Peer(net_sender),
                          packet |-> net_agents[net_sender].environment.outgoing[1][2],
                          replays |-> 0,
                          repeats |-> 0,
                          result |-> NoResult])
    /\ net_pc' = "exchanged"
    /\ UNCHANGED <<net_sender, net_rounds, net_sent, net_handed>>
    /\ UNCHANGED <<ser_vars, ev_vars, lisp_vars, cl_vars, pk_vars>>

\* The receiver is handed the bytes of the content packet again.
ReplayContent ==
    /\ net_pc = "exchanged"
    /\ net_stray.some
    /\ net_stray.v.replays < MaxReplays
    /\ \E r \in {handle_contentful_packet(net_agents[net_stray.v.who], net_stray.v.packet)} :
          /\ net_agents' = [net_agents EXCEPT ![net_stray.v.who] = r.agent]
          /\ net_stray' = Some([net_stray.v EXCEPT !.replays = @ + 1, !.result = r.result])
    /\ UNCHANGED <<net_pc, net_sender, net_rounds, net_sent, net_handed>>
    /\ UNCHANGED <<ser_vars, ev_vars, lisp_vars, cl_vars, pk_vars>>

\* The receiver is handed the initiation packet of the sender again.
RepeatInitiation ==
    /\ net_pc = "exchanged"
    /\ net_stray.some
    /\ net_stray.v.repeats < MaxRepeats
    /\ \E r \in {handle_initiation_packet(net_agents[net_stray.v.who],
                     net_agents[net_sender].environment.location,
                     InitiationOf(net_agents[net_sender],
                                  net_agents[net_stray.v.who].identity))} :
          /\ r.result.ok
          /\ net_agents' = [net_agents EXCEPT ![net_stray.v.who] = r.agent]
    /\ net_stray' = Some([net_stray.v EXCEPT !.repeats = @ + 1])
    /\ UNCHANGED <<net_pc, net_sender, net_rounds, net_sent, net_handed>>
    /\ UNCHANGED <<ser_vars, ev_vars, lisp_vars, cl_vars, pk_vars>>

RepNext ==
    \/ Initiate
    \/ ExchangeHandshake
    \/ SendTo
    \/ ExchangeKept
    \/ ReplayContent
    \/ RepeatInitiation
    \/ DrainTasks

SpecReplay == NetInit /\ [][RepNext]_vars

(***************************************************************************)
(* The stream cluster harness: two endpoints x and y, each with the        *)
(* StreamCluster it keeps for the other and its own ExpectedPacketSet.     *)
(* Each action is one call of a method of StreamCluster on one endpoint; a *)
(* packet produced by one endpoint is on the wire until the other has      *)
(* looked at it.                                                           *)
(***************************************************************************)
Ends == {"x", "y"}
Other(e) == IF e = "x" THEN "y" ELSE "x"
EndIdentity(e) == keypair(IF e = "x" THEN 101 ELSE 102).public
\* The seeds an endpoint draws are fresh: 1, 3, 5, ... at x and 2, 4, 6, ...
\* at y.  The key material pushed is the public key of one of the first
\* seeds of the other endpoint, whether or not it has been drawn yet.
FirstSeed(e) == IF e = "x" THEN 1 ELSE 2
NextSeed(e, cluster) ==
    IF cluster.own_current_seed.some THEN cluster.own_current_seed.v + 2 ELSE FirstSeed(e)
KeyMaterials(e) == {keypair(FirstSeed(e)).public, keypair(FirstSeed(e) + 2).public}
ClPayload == <<7, 8, 9>>
MaxPushes == 4
MaxOuts == 10
\* Seeds and key materials are pushed until this many packets were produced.
MaxSentAtPush == 1

ClInit ==
    /\ cl_pc = "ready"
    /\ cl_clusters = [e \in Ends |->
           StreamCluster_new(EndIdentity(Other(e)),
               is_greater_than(EndIdentity(Other(e)), EndIdentity(e)).v)]
    /\ cl_upcoming = [e \in Ends |-> ExpectedPacketSet_new]
    /\ cl_wire = None
    /\ cl_sent = {}
    /\ cl_last = [op |-> "new"]
    /\ cl_pushes = 0
    /\ SerIdle
    /\ EvIdle
    /\ LispIdle
    /\ NetIdle
    /\ PkIdle

PushOwnSeed ==
    /\ cl_pc = "ready"
    /\ cl_pushes < MaxPushes
    /\ Cardinality(cl_sent) <= MaxSentAtPush
    /\ \E e \in Ends : \E seed \in {NextSeed(e, cl_clusters[e])} :
       \E pushed \in {push_own_seed(cl_clusters[e], seed, cl_upcoming[e])} :
          /\ cl_clusters' = [cl_clusters EXCEPT ![e] = pushed.streams]
          /\ cl_upcoming' = [cl_upcoming EXCEPT ![e] = pushed.upcoming_packets]
          /\ cl_last' = [op |-> "push_own_seed", who |-> e]
    /\ cl_pushes' = cl_pushes + 1
    /\ UNCHANGED <<cl_pc, cl_wire, cl_sent>>
    /\ UNCHANGED <<ser_vars, ev_vars, lisp_vars, net_vars, pk_vars>>

PushNeighborKeyMaterial ==
    /\ cl_pc = "ready"
    /\ cl_pushes < MaxPushes
    /\ Cardinality(cl_sent) <= MaxSentAtPush
    /\ \E e \in Ends : \E key_material \in KeyMaterials(Other(e)) :
       \E pushed \in {push_neighbor_key_material(cl_clusters[e], key_material,
                                                 cl_upcoming[e])} :
          /\ cl_clusters' = [cl_clusters EXCEPT ![e] = pushed.streams]
          /\ cl_upcoming' = [cl_upcoming EXCEPT ![e] = pushed.upcoming_packets]
          /\ cl_last' = [op |-> "push_neighbor_key_material", who |-> e]
    /\ cl_pushes' = cl_pushes + 1
    /\ UNCHANGED <<cl_pc, cl_wire, cl_sent>>
    /\ UNCHANGED <<ser_vars, ev_vars, lisp_vars, net_vars, pk_vars>>

\* One endpoint asks its cluster for the next outgoing identifier and
\* encrypts the payload with the keystream it is given, as send_to does.
ProduceOutgoingIdentifier ==
    /\ cl_pc = "ready"
    /\ ~cl_wire.some
    /\ Cardinality(cl_sent) < MaxOuts
    /\ \E e \in Ends :
       \E produced \in {StreamCluster_produce_outgoing_identifier(cl_clusters[e])} :
          /\ produced.ok
          /\ \E sealed \in {AeadEncrypt(produced.keystream.key, produced.keystream.nonce,
                                        ClPayload)} :
             \E packet \in {[from |-> e,
                             stream |-> chosen_stream(cl_clusters[e]).v,
                             number |-> cl_clusters[e][chosen_stream(cl_clusters[e]).v].v
                                           .outgoing_message_index,
                             identifier |-> produced.identifier,
                             keystream |-> produced.keystream,
                             encrypted |-> sealed.encrypted,
                             tag |-> sealed.tag]} :
                /\ cl_wire' = Some(packet)
                /\ cl_sent' = cl_sent \cup {[from |-> e, stream |-> packet.stream,
                                              number |-> packet.number,
                                              identifier |-> packet.identifier,
                                              keystream |-> packet.keystream]}
                /\ cl_last' = [op |-> "produce_outgoing_identifier", who |-> e]
          /\ cl_clusters' = [cl_clusters EXCEPT ![e] = produced.streams]
    /\ UNCHANGED <<cl_pc, cl_upcoming, cl_pushes>>
    /\ UNCHANGED <<ser_vars, ev_vars, lisp_vars, net_vars, pk_vars>>

\* The other endpoint looks the identifier up among the packets it expects
\* and asks its cluster to decrypt, as handle_contentful_packet does.
DecryptIncomingPayload ==
    /\ cl_pc = "ready"
    /\ cl_wire.some
    /\ cl_last.op = "produce_outgoing_identifier"
    /\ \E e \in {Other(cl_wire.v.from)} :
       \E candidates \in {ExpectedPacketSet_iter(cl_upcoming[e], cl_wire.v.identifier)} :
          IF Len(candidates) = 0
          THEN cl_last' = [op |-> "decrypt_incoming_payload", who |-> e,
                           result |-> Err("UnrecognizedPacket")]
          ELSE \E i \in 1..Len(candidates) :
               cl_last' = [op |-> "decrypt_incoming_payload", who |-> e,
                           packet |-> candidates[i],
                           identifier |-> cl_wire.v.identifier,
                           result |-> StreamCluster_decrypt_incoming_payload(
                                          cl_clusters[e], candidates[i].stream_key,
                                          candidates[i].packet_number,
                                          cl_wire.v.encrypted, cl_wire.v.tag)]
    /\ UNCHANGED <<cl_pc, cl_clusters, cl_upcoming, cl_wire, cl_sent, cl_pushes>>
    /\ UNCHANGED <<ser_vars, ev_vars, lisp_vars, net_vars, pk_vars>>

\* The endpoint tells its cluster of the packet that authenticated.
GotIncomingPacket ==
    /\ cl_pc = "ready"
    /\ cl_wire.some
    /\ cl_last.op = "decrypt_incoming_payload"
    /\ cl_last.result.ok
    /\ \E overflow_checks \in BOOLEAN :
       \E got \in {StreamCluster_got_incoming_packet(cl_clusters[cl_last.who], cl_last.packet,
                       cl_last.identifier, cl_upcoming[cl_last.who], overflow_checks)} :
          /\ cl_pc' = IF got.panicked THEN "panicked" ELSE "ready"
          /\ cl_clusters' = [cl_clusters EXCEPT ![cl_last.who] = got.streams]
          /\ cl_upcoming' = [cl_upcoming EXCEPT ![cl_last.who] = got.upcoming_packets]
    /\ cl_last' = [op |-> "got_incoming_packet", who |-> cl_last.who,
                   packet |-> cl_last.packet]
    /\ cl_wire' = None
    /\ UNCHANGED <<cl_sent, cl_pushes>>
    /\ UNCHANGED <<ser_vars, ev_vars, lisp_vars, net_vars, pk_vars>>

\* The packet did not authenticate and is dropped.
DropPacket ==
    /\ cl_pc = "ready"
    /\ cl_wire.some
    /\ cl_last.op = "decrypt_incoming_payload"
    /\ ~cl_last.result.ok
    /\ cl_wire' = None
    /\ cl_last' = [op |-> "drop", who |-> cl_last.who]
    /\ UNCHANGED <<cl_pc, cl_clusters, cl_upcoming, cl_sent, cl_pushes>>
    /\ UNCHANGED <<ser_vars, ev_vars, lisp_vars, net_vars, pk_vars>>

ClNext ==
    \/ PushOwnSeed
    \/ PushNeighborKeyMaterial
    \/ ProduceOutgoingIdentifier
    \/ DecryptIncomingPayload
    \/ GotIncomingPacket
    \/ DropPacket

SpecCluster == ClInit /\ [][ClNext]_vars

(***************************************************************************)
(* The window harness: the cluster of endpoint y after a few pushes, then  *)
(* calls of StreamCluster::got_incoming_packet for packets y expects, in   *)
(* any order.                                                              *)
(***************************************************************************)
\* The pushes that made the cluster, each with the seed drawn or the seed of
\* the key material: one stream; two streams after y drew a second seed; two
\* streams after x's key material arrived twice.
WinHistories ==
    {<<[op |-> "own", v |-> 2], [op |-> "neighbor", v |-> 1]>>,
     <<[op |-> "own", v |-> 2], [op |-> "neighbor", v |-> 1],
       [op |-> "own", v |-> 4]>>,
     <<[op |-> "own", v |-> 2], [op |-> "neighbor", v |-> 1],
       [op |-> "neighbor", v |-> 1]>>}

RECURSIVE after_pushes(_, _)
after_pushes(made, history) ==
    IF Len(history) = 0 THEN made
    ELSE after_pushes(
             IF history[1].op = "own"
             THEN push_own_seed(made.streams, history[1].v, made.upcoming_packets)
             ELSE push_neighbor_key_material(made.streams, keypair(history[1].v).public,
                                             made.upcoming_packets),
             Drop(history, 1))

\* The packet told of is the first its stream still expects, or one further
\* on at one of these places of the window; no window is moved beyond
\* MaxStart.
SkipOffsets == {20, 50}
MaxStart == 8

FirstOpen(stream) ==
    {b \in stream.incoming_message_mask : \A c \in stream.incoming_message_mask : b <= c}

WinInit ==
    /\ cl_pc = "ready"
    /\ \E history \in WinHistories :
       \E made \in {after_pushes(
                       [streams |-> StreamCluster_new(EndIdentity("x"),
                                        is_greater_than(EndIdentity("x"), EndIdentity("y")).v),
                        upcoming_packets |-> ExpectedPacketSet_new], history)} :
          /\ cl_clusters = [e \in Ends |->
                 IF e = "y" THEN made.streams
                 ELSE StreamCluster_new(EndIdentity(Other(e)),
                          is_greater_than(EndIdentity(Other(e)), EndIdentity(e)).v)]
          /\ cl_upcoming = [e \in Ends |->
                 IF e = "y" THEN made.upcoming_packets ELSE ExpectedPacketSet_new]
          /\ cl_pushes = Len(history)
    /\ cl_wire = None
    /\ cl_sent = {}
    /\ cl_last = [op |-> "new"]
    /\ SerIdle
    /\ EvIdle
    /\ LispIdle
    /\ NetIdle
    /\ PkIdle

\* The streams of a cluster that have the key.
StreamsOfKey(cluster, key) ==
    {i \in 1..Len(StreamNames) :
        cluster[StreamNames[i]].some /\ cluster[StreamNames[i]].v.key = key}

GotExpectedPacket ==
    /\ cl_pc = "ready"
    /\ \E e \in Ends : \E identifier \in DOMAIN cl_upcoming[e] :
       \E i \in 1..Len(cl_upcoming[e][identifier]) :
       \E packet \in {cl_upcoming[e][identifier][i]} :
          /\ \E s \in StreamsOfKey(cl_clusters[e], packet.stream_key) :
                /\ cl_clusters[e][StreamNames[s]].v.incoming_message_mask_start < MaxStart
                /\ packet.packet_number
                       - cl_clusters[e][StreamNames[s]].v.incoming_message_mask_start
                           \in SkipOffsets \cup FirstOpen(cl_clusters[e][StreamNames[s]].v)
          /\ \E overflow_checks \in BOOLEAN :
             \E got \in {StreamCluster_got_incoming_packet(cl_clusters[e], packet, identifier,
                             cl_upcoming[e], overflow_checks)} :
                /\ cl_pc' = IF got.panicked THEN "panicked" ELSE "ready"
                /\ cl_clusters' = [cl_clusters EXCEPT ![e] = got.streams]
                /\ cl_upcoming' = [cl_upcoming EXCEPT ![e] = got.upcoming_packets]
          /\ cl_last' = [op |-> "got_expected_packet", who |-> e, packet |-> packet,
                         before |-> cl_clusters[e]]
    /\ UNCHANGED <<cl_wire, cl_sent, cl_pushes>>
    /\ UNCHANGED <<ser_vars, ev_vars, lisp_vars, net_vars, pk_vars>>

WinNext == GotExpectedPacket

SpecWindow == WinInit /\ [][WinNext]_vars

\* The index atom read as a little-endian integer.
RECURSIVE LittleEndian(_)
LittleEndian(bs) == IF Len(bs) = 0 THEN 0 ELSE bs[1] + 256 * LittleEndian(Drop(bs, 1))

\* The subtree of n at the path k >= 1: the path k \div 2, then left when k is
\* even and right when it is odd.
RECURSIVE Navigate(_, _)
Navigate(n, k) ==
    IF k = 1 THEN Ok(n)
    ELSE LET above == Navigate(n, k \div 2)
         IN  IF ~above.ok THEN above
             ELSE IF above.v.t # "Cell" THEN Err("IndexOutOfRange")
             ELSE Ok(IF k % 2 = 1 THEN above.v.b ELSE above.v.a)

\* C5: AXIS on a subject n and an index atom k, read as a little-endian
\* integer, returns the subtree reached by the bits of k after its leading 1
\* (0 left, 1 right); it fails with IndexOutOfRange when k is zero or empty or
\* a step meets an atom, and with CellAsIndex when the index is a cell.
C5_AxisFollowsBits ==
    (ev_pc = "done" /\ ev_kind = "axis") =>
        ev_result = IF ev_arg.t = "Cell" THEN Err("CellAsIndex")
                    ELSE IF LittleEndian(as_bytes(ev_arg)) = 0 THEN Err("IndexOutOfRange")
                    ELSE Navigate(ev_expr.a, LittleEndian(as_bytes(ev_arg)))

\* The two-byte index #ff07 has led ten steps to the right in the 12-tuple.
C5_TwoByteIndexFollowed ==
    /\ ev_pc = "done"
    /\ ev_kind = "axis"
    /\ ev_arg = slice_as_noun(<<255, 7>>)
    /\ ev_expr.a = tuple_as_noun([i \in 1..12 |-> u8(i)])
    /\ ev_result = Ok(pair(u8(11), u8(12)))

\* C6: two atoms are equal, under Noun == and under the metered equal that
\* IS_EQUAL runs, exactly when their byte sequences are equal, whatever the
\* representation of each.
C6_EqualByBytes ==
    (ev_pc = "done" /\ ev_kind = "equal") =>
        /\ NounEq(ev_arg.a, ev_arg.b) <=> (as_bytes(ev_arg.a) = as_bytes(ev_arg.b))
        /\ ev_result = Ok(from_bool(as_bytes(ev_arg.a) = as_bytes(ev_arg.b)))

\* C7: once STORE_BY_HASH has stored a value v, RETRIEVE_BY_HASH of HASH(v) on
\* the same store returns the cell [1 v], with v as it was stored.
C7_RetrieveReturnsStored ==
    (ev_pc = "done" /\ ev_kind = "retrieve" /\ ev_arg \in ev_stored) =>
        /\ ev_result.ok
        /\ NounEq(ev_result.v, new_cell(from_bool(TRUE), ev_arg))

\* C8: a lambda called outside the scope that defined it, where a captured
\* name is bound to another value, gives each free name of its body the value
\* it had where the lambda was made and each parameter the argument passed
\* in its position.
C8_LambdaCapturesAndBinds ==
    (lisp_pc = "done" /\ lisp_kind = "lambda") =>
        /\ lisp_result.ok
        /\ NounEq(lisp_result.v,
                  from_u8(IF lisp_arg.reads = "x" THEN CapturedValues(lisp_arg.k)[lisp_arg.i]
                          ELSE ArgumentValues(lisp_arg.m)[lisp_arg.i]))

\* C9: for n items, the i-th path of dense_tree_positions(n) leads, in the
\* tree build_into_dense_tree makes of them, to the i-th item; and the i-th of
\* n names bound by one let evaluates to the i-th value.
C9_DensePositionsAddressItems ==
    /\ (lisp_pc = "done" /\ lisp_kind = "dense") =>
          \A i \in 1..lisp_arg.n : lisp_result[i] = Ok(from_u8(i))
    /\ (lisp_pc = "done" /\ lisp_kind = "let") =>
          /\ lisp_result.ok
          /\ NounEq(lisp_result.v, from_u8(LetValues(lisp_arg.n)[lisp_arg.i]))

\* C10: after the handshake every payload sent with send_to and carried by
\* an exchange produces exactly one task at the receiver, with the sender's
\* identity as requestor and the payload as sent; and before each send the
\* receiver expects a packet of the next packet number from the sender.
C10_EveryPayloadOneTask ==
    /\ net_pc = "exchanged" =>
          net_agents[Peer(net_sender)].environment.tasks =
              [i \in 1..Len(net_handed) |->
                  [requestor |-> net_agents[net_sender].identity,
                   vm |-> Vm_new(net_handed[i]).v]]
    /\ net_pc = "ready" =>
          \E identifier \in DOMAIN net_agents[Peer(net_sender)].upcoming_packets :
              \E i \in 1..Len(net_agents[Peer(net_sender)].upcoming_packets[identifier]) :
                  LET expected == net_agents[Peer(net_sender)].upcoming_packets[identifier][i]
                  IN  /\ expected.stream_with = net_agents[net_sender].identity
                      /\ expected.packet_number = net_sent

\* C4: a test that holds makes IF continue with its first branch and one that
\* does not with its second: (if (test a b) X Y) gives X exactly when the test
\* holds, and the guessing game answers each guess with "too low", "right" or
\* "too high" as the guess is below, at or above the answer.
Verdict(guess, answer) ==
    IF guess < answer THEN slice_as_noun(TooLow)
    ELSE IF answer < guess THEN slice_as_noun(TooHigh)
    ELSE slice_as_noun(Right)

C4_TrueTakesFirstBranch ==
    /\ (lisp_pc = "done" /\ lisp_kind = "if") =>
          /\ lisp_result.ok
          /\ NounEq(lisp_result.v,
                    from_u8(IF lisp_arg.holds THEN FirstBranch ELSE SecondBranch))
    /\ (lisp_pc = "done" /\ lisp_kind = "guess") =>
          /\ lisp_result.ok
          /\ NounEq(lisp_result.v,
                    tuple_as_noun([i \in 1..3 |->
                        Verdict(lisp_arg.guesses[i], lisp_arg.answer)]))

\* The stream a cluster keeps for one of its own seeds and one of the key
\* materials of the neighbor; own and neighbor are "current" or "previous".
Slot(cluster, own, neighbor) == cluster["own_" \o own \o "_neighbor_" \o neighbor]
OwnSeed(cluster, own) == cluster["own_" \o own \o "_seed"]
NeighborKeyMaterial(cluster, neighbor) == cluster["neighbor_" \o neighbor \o "_key_material"]
Ages == {"current", "previous"}

\* C11: after any sequence of push_own_seed and push_neighbor_key_material
\* each of the four slots of a cluster holds a stream exactly when its own
\* seed and its neighbor key material are both known, and the key of that
\* stream is the exchange of that seed and that key material.
C11_SlotsFollowSeeds ==
    cl_pc \in {"ready", "panicked"} =>
        \A e \in Ends : \A own \in Ages : \A neighbor \in Ages :
            /\ Slot(cl_clusters[e], own, neighbor).some
                   = (OwnSeed(cl_clusters[e], own).some
                          /\ NeighborKeyMaterial(cl_clusters[e], neighbor).some)
            /\ Slot(cl_clusters[e], own, neighbor).some =>
                   Slot(cl_clusters[e], own, neighbor).v.key
                       = ed25519_exchange(NeighborKeyMaterial(cl_clusters[e], neighbor).v,
                                          keypair(OwnSeed(cl_clusters[e], own).v).private)

\* All four slots of one endpoint hold streams, with four different keys.
C11_FourStreams ==
    /\ cl_pc = "ready"
    /\ \E e \in Ends :
          /\ \A own \in Ages : \A neighbor \in Ages : Slot(cl_clusters[e], own, neighbor).some
          /\ Cardinality({Slot(cl_clusters[e], own, neighbor).v.key :
                             own \in Ages, neighbor \in Ages}) = 4

\* The key is that of a stream of the current own seed of the cluster.
UnderCurrentOwnSeed(cluster, key) ==
    \E neighbor \in Ages :
        /\ Slot(cluster, "current", neighbor).some
        /\ Slot(cluster, "current", neighbor).v.key = key

\* C12: once an inbound packet encrypted under the current own seed has
\* authenticated and the cluster was told of it, own_current_acknowledged is
\* true; and an outgoing payload uses own_current x neighbor_current when
\* own_current_acknowledged is true and that stream exists, and otherwise
\* own_previous x neighbor_current when that exists.
C12_AcknowledgedOnceAuthenticated ==
    /\ (cl_pc = "ready" /\ cl_last.op = "got_incoming_packet"
            /\ UnderCurrentOwnSeed(cl_clusters[cl_last.who], cl_last.packet.stream_key))
          => cl_clusters[cl_last.who].own_current_acknowledged
    /\ (cl_pc = "ready" /\ cl_last.op = "produce_outgoing_identifier") =>
          cl_wire.v.stream =
              IF cl_clusters[cl_last.who].own_current_acknowledged
                     /\ cl_clusters[cl_last.who].own_current_neighbor_current.some
                  THEN "own_current_neighbor_current"
              ELSE IF cl_clusters[cl_last.who].own_previous_neighbor_current.some
                  THEN "own_previous_neighbor_current"
              ELSE "own_current_neighbor_current"

\* The streams of a cluster that have the key.
StreamsWithKey(cluster, key) ==
    {cluster[StreamNames[n]].v : n \in {i \in 1..Len(StreamNames) :
        cluster[StreamNames[i]].some /\ cluster[StreamNames[i]].v.key = key}}

\* C13: when an endpoint has produced the identifier and the keystream of
\* its packet number k on a stream, every stream with the same key at the
\* other endpoint has that identifier as the one of the incoming packet
\* number k and authenticates the packet as number k; and two packets that
\* the two endpoints sent under one key differ in the nonce of the keystream
\* and in the nonce of the identifier generator.
C13_NoncesMeetAndNeverCross ==
    /\ (cl_pc = "ready" /\ cl_last.op = "produce_outgoing_identifier") =>
          \A stream \in StreamsWithKey(cl_clusters[Other(cl_wire.v.from)],
                                       cl_wire.v.keystream.key) :
              /\ stream.neighbor_is_lexico_later
                     # cl_clusters[cl_wire.v.from][cl_wire.v.stream].v.neighbor_is_lexico_later
              /\ generate_identifiers(stream, "Incoming", cl_wire.v.number, 1)[1]
                     = cl_wire.v.identifier
              /\ Stream_decrypt_incoming_payload(stream, cl_wire.v.number,
                     cl_wire.v.encrypted, cl_wire.v.tag) = Ok(ClPayload)
    /\ cl_pc = "ready" =>
          \A p \in cl_sent : \A q \in cl_sent :
              (p.from # q.from /\ p.keystream.key = q.keystream.key) =>
                  /\ p.keystream.nonce # q.keystream.nonce
                  /\ p.identifier[2] # q.identifier[2]

\* An endpoint has produced its packet number 8, the first of its second
\* batch of identifiers, on a stream whose key the other endpoint has a
\* stream for and has itself sent a packet under.
C13_SecondBatchBothWays ==
    /\ cl_pc = "ready"
    /\ cl_last.op = "produce_outgoing_identifier"
    /\ cl_wire.v.number = 8
    /\ StreamsWithKey(cl_clusters[Other(cl_wire.v.from)], cl_wire.v.keystream.key) # {}
    /\ \E q \in cl_sent :
          q.from # cl_wire.v.from /\ q.keystream.key = cl_wire.v.keystream.key

\* The Results with which handle_packet's handlers reject a packet: too
\* short, bad checksum, bad signature, unrecognized identifier.
Rejections ==
    {Err("InternalError"), Err("BadChecksum"), Err("BadSignature"), Err("UnrecognizedPacket")}

\* C14: handle_packet returns for every packet, and when its handler has
\* rejected the packet the agent is as it was before: its neighbors with
\* their stream clusters, its expected packets, its tasks, and the packets
\* it has sent.
C14_RejectedPacketChangesNothing ==
    net_stray.some =>
        /\ net_stray.v.result.ok \in BOOLEAN
        /\ net_stray.v.result \in Rejections =>
              net_agents[net_stray.v.who] = net_stray.v.before

\* An agent that has a neighbor and expects packets from it has rejected an
\* initiation packet in the name of that neighbor for its signature.
C14_ForgedSignatureRejected ==
    /\ net_stray.some
    /\ net_stray.v.result = Err("BadSignature")
    /\ DOMAIN net_stray.v.before.neighbors # {}
    /\ DOMAIN net_stray.v.before.upcoming_packets # {}

(***************************************************************************)
(* The reading harness: deserialize is handed a byte string, and the Noun  *)
(* it accepts is serialized again.                                         *)
(***************************************************************************)
\* Every byte string up to MaxInputLen over bytes on both sides of each
\* boundary of the atom encoding, the serializations of the Nouns of the
\* serialization harness, and some longer strings that differ from a
\* serialization in one place.
DeAlphabet == {0, 1, 2, 5, 189, 190, 191, 192, 254, 255}
MaxInputLen == 3
ShortInputs == UNION {[1..n -> DeAlphabet] : n \in 0..MaxInputLen}
Serializations == {serialize(n, 1000000).v : n \in SerNouns}
NearInputs ==
    {<<2, 191, 5, 0>>,             \* the atom 5 with a length prefix
     <<3, 255, 1, 5, 0>>,          \* the atom 5 with its length in the long form
     <<3, 192, 5, 6, 0>>,          \* the atom 5 6
     <<3, 192, 5, 6, 128>>,        \* the same with the highest unused bit set
     <<3, 192, 5, 6, 0, 0>>,       \* the same and one more byte
     <<4, 192, 5, 6, 0>>,          \* the same with the atom stream one too long
     <<4, 255, 129, 0, 5, 0>>,     \* the atom 5 with a length of two groups
     <<2, 5, 6, 1>>,               \* the cell [5 6]
     <<2, 5, 6, 9>>,               \* the same with an unused bit set
     <<2, 5, 6, 1, 0>>}            \* the same and one more byte
DeInputs == ShortInputs \cup Serializations \cup NearInputs

DeInit ==
    /\ ser_pc = "bytes"
    /\ ser_buf \in {Ok(b) : b \in DeInputs}
    /\ ser_noun = from_u8(0)
    /\ ser_max = 1000000
    /\ ser_back = NoResult
    /\ ser_again = NoResult
    /\ EvIdle
    /\ LispIdle
    /\ NetIdle
    /\ ClIdle
    /\ PkIdle

DeserializeBytes ==
    /\ ser_pc = "bytes"
    /\ ser_back' = deserialize(ser_buf.v)
    /\ ser_pc' = "read"
    /\ UNCHANGED <<ser_noun, ser_max, ser_buf, ser_again>>
    /\ UNCHANGED <<ev_vars, lisp_vars, net_vars, cl_vars, pk_vars>>

SerializeAgain ==
    /\ ser_pc = "read"
    /\ ser_back.ok
    /\ ser_noun' = ser_back.v
    /\ ser_again' = serialize(ser_back.v, ser_max)
    /\ ser_pc' = "written"
    /\ UNCHANGED <<ser_max, ser_buf, ser_back>>
    /\ UNCHANGED <<ev_vars, lisp_vars, net_vars, cl_vars, pk_vars>>

DeNext == DeserializeBytes \/ SerializeAgain

SpecDe == DeInit /\ [][DeNext]_vars

\* C15: a byte string that deserialize accepts is the serialization of the
\* Noun it gives.
C15_AcceptedIsCanonical ==
    ser_pc = "written" => ser_again = ser_buf

\* C16: of LESS(a,b), LESS(b,a) and IS_EQUAL(a,b) on two atoms exactly one
\* is 1.
Truths(n) == IF n = from_bool(TRUE) THEN 1 ELSE 0
C16_ExactlyOneOfThree ==
    ev_kind = "compare" =>
        /\ ev_result.ok
        /\ Truths(ev_result.v.a) + Truths(ev_result.v.b.a) + Truths(ev_result.v.b.b) = 1

\* C17: ADD of two atoms gives the atom whose little-endian value is the sum
\* of the little-endian values of the operands, one byte longer than the
\* longer operand when the sum carries out of it.
C17_AddIsLittleEndianSum ==
    ev_kind = "add" =>
        /\ ev_result.ok
        /\ ev_result.v.t # "Cell"
        /\ LET a == as_bytes(ev_arg.a)
               b == as_bytes(ev_arg.b)
               sum == LittleEndian(a) + LittleEndian(b)
               longer == Max(Len(a), Len(b))
           IN  /\ LittleEndian(as_bytes(ev_result.v)) = sum
               /\ Len(as_bytes(ev_result.v)) = IF sum >= Pow2(8 * longer) THEN longer + 1 ELSE longer

\* C18: (is_cell x) gives the atom 0 when x is a cell and the atom 1 when x
\* is an atom.
C18_IsCellGivesZeroForCell ==
    lisp_kind = "is_cell" =>
        lisp_result = Ok(from_u8(IF lisp_arg.cell THEN 0 ELSE 1))

\* The node pairs of a and b in pre-order, descending wherever both are cells.
RECURSIVE PreOrder(_, _)
PreOrder(a, b) ==
    <<<<a, b>>>> \o (IF a.t = "Cell" /\ b.t = "Cell"
                       THEN PreOrder(a.a, b.a) \o PreOrder(a.b, b.b)
                     ELSE <<>>)

\* A pair that settles the comparison: not two cells, and not the same atom.
Unequal(p) == ~(p[1].t = "Cell" /\ p[2].t = "Cell") /\ p[1] # p[2]

\* The number of pairs up to and including the first unequal one.
PairsToVisit(a, b) ==
    LET pairs == PreOrder(a, b)
        stops == {i \in 1..Len(pairs) : Unequal(pairs[i])}
    IN  IF stops = {} THEN Len(pairs) ELSE CHOOSE i \in stops : \A j \in stops : i <= j

\* C19: equal spends one tick on each node pair, in pre-order up to the
\* first unequal pair; with a budget that covers them it answers and has
\* spent exactly that many ticks, with a smaller budget it gives the tick
\* error having spent the whole budget and no more.
C19_OneTickPerPairInPreOrder ==
    ev_kind = "trees" =>
        LET pairs == PairsToVisit(ev_arg.a, ev_arg.b)
        IN  IF pairs <= ev_limit
            THEN /\ ev_result = Ok(\A i \in 1..pairs : ~Unequal(PreOrder(ev_arg.a, ev_arg.b)[i]))
                 /\ ev_limit - ev_ticks = pairs
            ELSE /\ ev_result = Err("CostError")
                 /\ ev_ticks = 0

\* test giant_equality: the budget runs out before the doubled Noun is
\* compared with itself.
C19_GiantEqualityRunsOut ==
    /\ ev_kind = "trees"
    /\ ev_arg.a = Doubled(MaxDoublings)
    /\ ev_arg.b = Doubled(MaxDoublings)
    /\ ev_limit = 40
    /\ ev_result = Err("CostError")
    /\ ev_ticks = 0

\* The steps of a path: the binary digits of k >= 1 after the leading 1.
RECURSIVE PathSteps(_)
PathSteps(k) == IF k <= 1 THEN <<>> ELSE Append(PathSteps(k \div 2), k % 2)

\* The path that takes the given steps.
RECURSIVE PathOfSteps(_)
PathOfSteps(steps) ==
    IF Len(steps) = 0 THEN 1
    ELSE 2 * PathOfSteps(Take(steps, Len(steps) - 1)) + steps[Len(steps)]

\* C20: (axis x q) with x a bound name at the path p and q a literal
\* compiles to [AXIS r], r taking the steps of p and then the steps of q,
\* and the program contains no copy of q; with an object that is not a name
\* or an index that is not a literal the index is in the program as data.
C20_FusedAxisIsOnePath ==
    /\ lisp_kind = "fused" =>
          /\ lisp_arg.code.ok
          /\ lisp_arg.formula.v.t = "Cell"
          /\ lisp_arg.formula.v.a = from_u8(AXIS)
          /\ lisp_arg.formula.v.b.t # "Cell"
          /\ LittleEndian(as_bytes(lisp_arg.formula.v.b))
                = PathOfSteps(PathSteps(lisp_arg.p) \o PathSteps(LittleEndian(lisp_arg.q)))
          /\ ~noun_contains(lisp_arg.code.v, from_vec(lisp_arg.q))
    /\ lisp_kind = "unfused" =>
          /\ lisp_arg.code.ok
          /\ lisp_arg.formula.v.t = "Cell"
          /\ lisp_arg.formula.v.a = from_u8(RECURSE)
          /\ noun_contains(lisp_arg.code.v, from_vec(lisp_arg.q))

\* The number of operands the arm of eval_on for the opcode of a special
\* form takes from its argument: three for IF (triple_arg), two where the
\* evaluated argument must be a cell, one where it is used whole.
OperandsOf(name) ==
    IF name = "if" THEN 3
    ELSE IF name \in {"equal", "store_by_key", "encrypt", "decrypt", "exucrypt",
                      "add", "xor", "less", "reshape"} THEN 2
    ELSE 1

\* C21: a special form compiles exactly when it has as many arguments as its
\* opcode takes operands, to a formula headed by the opcode that the
\* evaluator takes as a formula; with any other count compile gives an Err.
C21_ArityOfSpecialForms ==
    lisp_kind = "native" =>
        IF lisp_arg.argc = OperandsOf(lisp_arg.name)
        THEN /\ lisp_arg.code.ok
             /\ lisp_arg.code.v.t = "Cell"
             /\ lisp_arg.code.v.a = from_u8(native_opcode_for_name(lisp_arg.name).v[1])
             /\ lisp_result # Err("AtomicFormula")
        ELSE /\ ~lisp_arg.code.ok
             /\ ~lisp_arg.code.panic

\* The bytes of the atom leaves of a Noun, in pre-order.
RECURSIVE LeafBytes(_)
LeafBytes(n) == IF n.t = "Cell" THEN LeafBytes(n.a) \o LeafBytes(n.b) ELSE as_bytes(n)

\* n has the cells of the structure t and leaves of the lengths t names.
RECURSIVE ShapedLike(_, _)
ShapedLike(n, t) ==
    IF t.t = "Cell" THEN n.t = "Cell" /\ ShapedLike(n.a, t.a) /\ ShapedLike(n.b, t.b)
    ELSE n.t # "Cell" /\ Len(as_bytes(n)) = LittleEndian(as_bytes(t))

\* C22: a reshape that succeeds gives a Noun with the cells of t and leaves
\* of the lengths t names, whose leaves hold all the bytes of d in order.
C22_ReshapeKeepsEveryByte ==
    (ev_kind = "reshape" /\ ev_result.ok) =>
        /\ ShapedLike(ev_result.v, ev_arg.b)
        /\ LeafBytes(ev_result.v) = LeafBytes(ev_arg.a)

\* s has the cells of n, and where n has an atom s has the length of that
\* atom as a little-endian atom without a zero byte at its end.
RECURSIVE LengthsOf(_, _)
LengthsOf(s, n) ==
    IF n.t = "Cell" THEN s.t = "Cell" /\ LengthsOf(s.a, n.a) /\ LengthsOf(s.b, n.b)
    ELSE /\ s.t # "Cell"
         /\ LittleEndian(as_bytes(s)) = Len(as_bytes(n))
         /\ (Len(as_bytes(s)) = 0 \/ as_bytes(s)[Len(as_bytes(s))] # 0)

\* C23: SHAPE gives the cell structure of its operand with every atom
\* replaced by its byte length as a compact little-endian atom.
C23_ShapeIsLittleEndianLength ==
    ev_kind = "shape" => (ev_result.ok /\ LengthsOf(ev_result.v, ev_arg))

(***************************************************************************)
(* The content packet harness: test read_back of content_packet.rs, with   *)
(* the lengths and the number drawn by gen_range as parameters.            *)
(***************************************************************************)
\* The longest buffer whose remaining_words + 1 stays below HalfLimit.
MaxBufferLen == PAYLOAD_START + 4 * (HalfLimit - 2)
BufferLens == {28, 29, 31, 32, 36, 100, 228, 1000, 1028, 4124, MaxBufferLen}

\* Payload lengths for a buffer: the tests', the least, the greatest that
\* fits, and two that prepare refuses.
PayloadLens(buffer_len) ==
    {p \in {0, 4, 8, 304, 1000, 4 * ((buffer_len - PAYLOAD_START) \div 4)} :
        PAYLOAD_START + p <= buffer_len}
        \cup {2, 4 * ((buffer_len - PAYLOAD_START) \div 4) + 4}

\* What gen_range(0, limit) may give: the ends of the range and some more.
Draws(limit) ==
    {n \in {u32(0), u32(1), u32(2), u32_div(limit, 2), u32_sub(limit, 2), u32_sub(limit, 1)} :
        n[1] < limit[1] \/ (n[1] = limit[1] /\ n[2] < limit[2])}

ReadBackPayload(payload_len) == [idx \in 1..payload_len |-> ((idx - 1) * 3) % 256]
ReadBackChecksum == [i \in 1..16 |-> 17 * (i - 1)]
ReadBackIdentifier == <<8, 7, 6, 5, 4, 3, 2, 1>>

PkInit ==
    /\ pk_pc = "buffer"
    /\ \E buffer_len \in BufferLens : \E payload_len \in PayloadLens(buffer_len) :
       \E n \in Draws(length_extra_limit(payload_len \div 4,
                                          (buffer_len - PAYLOAD_START) \div 4)) :
          pk_in = [buffer_len |-> buffer_len, payload_len |-> payload_len,
                   length_extra_n |-> n]
    /\ pk_packet = NoResult
    /\ pk_back = NoResult
    /\ SerIdle
    /\ EvIdle
    /\ LispIdle
    /\ NetIdle
    /\ ClIdle

\* prepare, and the test's writes of the payload and the checksum.
Prepare ==
    /\ pk_pc = "buffer"
    /\ \E writer \in {ContentPacket_prepare(pk_in.buffer_len, pk_in.payload_len,
                                            ReadBackIdentifier, pk_in.length_extra_n)} :
          pk_packet' =
              IF ~writer.ok THEN writer
              ELSE [writer EXCEPT
                       !.encrypted_payload =
                           ReadBackPayload(pk_in.payload_len)
                               \o [i \in 1..(pk_in.buffer_len - PAYLOAD_START - pk_in.payload_len)
                                      |-> 255],
                       !.checksum = ReadBackChecksum]
    /\ pk_pc' = "prepared"
    /\ UNCHANGED <<pk_in, pk_back>>
    /\ UNCHANGED <<ser_vars, ev_vars, lisp_vars, net_vars, cl_vars>>

Decode ==
    /\ pk_pc = "prepared"
    /\ pk_packet.ok
    /\ pk_back' = ContentPacket_decode(pk_packet)
    /\ pk_pc' = "decoded"
    /\ UNCHANGED <<pk_in, pk_packet>>
    /\ UNCHANGED <<ser_vars, ev_vars, lisp_vars, net_vars, cl_vars>>

PkNext == Prepare \/ Decode

SpecPacket == PkInit /\ [][PkNext]_vars

ExpectedNumbers(upcoming, key) ==
    UNION {{upcoming[identifier][i].packet_number :
               i \in {j \in 1..Len(upcoming[identifier]) :
                          upcoming[identifier][j].stream_key = key}} :
           identifier \in DOMAIN upcoming}

\* The packet numbers start + b of the bits b set in the mask of a stream.
OpenNumbers(stream) ==
    {stream.incoming_message_mask_start + b : b \in stream.incoming_message_mask}

\* C25: after calls of StreamCluster::got_incoming_packet for packets that
\* were expected, for each stream the set expects the packet number p exactly
\* when start <= p < start + 64 and the bit p - start of the mask is set; and
\* the call left start where it was or moved it on by 8.
C25_WindowMatchesExpected ==
    cl_last.op = "got_expected_packet" =>
        \A i \in 1..Len(StreamNames) :
            cl_clusters[cl_last.who][StreamNames[i]].some =>
                /\ ExpectedNumbers(cl_upcoming[cl_last.who],
                                   cl_clusters[cl_last.who][StreamNames[i]].v.key)
                       = OpenNumbers(cl_clusters[cl_last.who][StreamNames[i]].v)
                /\ OpenNumbers(cl_clusters[cl_last.who][StreamNames[i]].v) \subseteq
                       cl_clusters[cl_last.who][StreamNames[i]].v.incoming_message_mask_start
                           .. (cl_clusters[cl_last.who][StreamNames[i]].v
                                   .incoming_message_mask_start + IncomingWindow - 1)
                /\ cl_clusters[cl_last.who][StreamNames[i]].v.incoming_message_mask_start
                       - cl_last.before[StreamNames[i]].v.incoming_message_mask_start
                           \in {0, 8}

\* The same for the clusters whose streams have keys of their own.
WindowMatchesWhereKeysDiffer ==
    (\A i, j \in 1..Len(StreamNames) :
        (i # j /\ cl_clusters["y"][StreamNames[i]].some /\ cl_clusters["y"][StreamNames[j]].some)
            => cl_clusters["y"][StreamNames[i]].v.key # cl_clusters["y"][StreamNames[j]].v.key)
        => C25_WindowMatchesExpected

\* C26: a formula whose head is an atom that is not exactly one byte long is
\* rejected with NotAnOpcode, a one-byte head of 25 or more with BadOpcode of
\* that byte, and in both cases nothing is stored.
C26_HeadMustBeOneOpcodeByte ==
    ev_kind = "head" =>
        /\ Len(as_bytes(ev_arg.a)) # 1 =>
               ev_result = Err("NotAnOpcode") /\ ev_storage = {}
        /\ (Len(as_bytes(ev_arg.a)) = 1 /\ as_bytes(ev_arg.a)[1] >= 25) =>
               /\ ev_result = [ok |-> FALSE, e |-> "BadOpcode", opcode |-> as_bytes(ev_arg.a)[1]]
               /\ ev_storage = {}

\* What the code does with a head: as_u8 of a small atom reads its four value
\* bytes whatever its length, as_u8 of a long atom its first byte when the
\* others are 0; the byte so read is the opcode.
HeadAsRead ==
    ev_kind = "head" =>
        /\ ev_result = Err("NotAnOpcode") <=> ~as_u8(ev_arg.a).some
        /\ ev_result = Err("NotAnOpcode") <=>
               \/ \E i \in 2..Len(as_bytes(ev_arg.a)) : as_bytes(ev_arg.a)[i] # 0
               \/ ev_arg.a.t = "Atom" /\ Len(as_bytes(ev_arg.a)) = 0
        /\ (Len(as_bytes(ev_arg.a)) = 1 /\ as_bytes(ev_arg.a)[1] >= 25) =>
               /\ ev_result = [ok |-> FALSE, e |-> "BadOpcode", opcode |-> as_bytes(ev_arg.a)[1]]
               /\ ev_storage = {}
        /\ ev_result = Err("NotAnOpcode") => ev_storage = {}

\* C27: once the sender has called initiate_stream_with a second time for a
\* neighbor it streams with and the packets are delivered, a send_to of the
\* sender succeeds in the end and the neighbor has the task.
C27_SendsAgainAfterRotation ==
    (net_pc = "rotating") ~>
        (/\ net_pc = "exchanged"
         /\ net_rounds >= 2 * HandshakeRounds
         /\ Len(net_agents[Peer(net_sender)].environment.tasks) = 1)

\* After the second initiate_stream_with the sender has no stream and none
\* is made: every send_to is StreamNotReady.
NotReadyAfterRotation ==
    net_rounds >= 2 * HandshakeRounds =>
        /\ net_pc \in {"rotated", "not ready"}
        /\ \A i \in 1..Len(StreamNames) :
               ~net_agents[net_sender].neighbors[net_agents[Peer(net_sender)].identity]
                    .streams[StreamNames[i]].some

\* From then on neither a send_to nor an exchange changes anything in either
\* agent: the sender stays without a stream however long the test goes on.
RetryChangesNothing ==
    [][(net_rounds >= 2 * HandshakeRounds /\ net_pc \in {"rotated", "not ready"})
           => net_agents' = net_agents]_vars

\* C28: a content packet gives at most one task at the receiver: once it was
\* accepted, the same bytes are rejected when they are handed over again,
\* also after the initiation packet of the sender was handed over again.
C28_OneTaskPerContentPacket ==
    (net_pc = "exchanged" /\ net_stray.some /\ "replays" \in DOMAIN net_stray.v) =>
        /\ Len(net_agents[net_stray.v.who].environment.tasks) <= 1
        /\ net_stray.v.replays > 0 => ~net_stray.v.result.ok

\* C29: the formula the compiler emits for a name, read or called, is
\* [AXIS a] with an atom a that AXIS decodes as the path p the compiler
\* resolved the name to, also for p >= 256 under eight or more nested lets;
\* so the program gives the value the name is bound to.
C29_EmittedPathIsDecodedPath ==
    (lisp_pc = "done" /\ lisp_kind = "nested") =>
        /\ lisp_arg.emitted.ok
        /\ lisp_arg.emitted.v.t = "Cell"
        /\ lisp_arg.emitted.v.a = from_u8(AXIS)
        /\ lisp_arg.emitted.v.b.t # "Cell"
        /\ LittleEndian(as_bytes(lisp_arg.emitted.v.b)) = lisp_arg.p
        /\ lisp_result.ok
        /\ NounEq(lisp_result.v,
                  from_u8(IF lisp_arg.use = "call" THEN CallArgument[1]
                          ELSE LetValues(lisp_arg.d)[lisp_arg.i]))

\* The same for the paths below 256; above, the atom holds p with its most
\* significant byte first.
EmittedPathBigEndian ==
    (lisp_pc = "done" /\ lisp_kind = "nested") =>
        /\ lisp_arg.emitted.ok
        /\ lisp_arg.emitted.v.a = from_u8(AXIS)
        /\ LittleEndian(Reverse(as_bytes(lisp_arg.emitted.v.b))) = lisp_arg.p
        /\ lisp_arg.p < 256 => C29_EmittedPathIsDecodedPath
        /\ lisp_arg.p >= 256 => ~lisp_result.ok \/ ~NounEq(lisp_result.v,
                  from_u8(IF lisp_arg.use = "call" THEN CallArgument[1]
                          ELSE LetValues(lisp_arg.d)[lisp_arg.i]))

\* C30: compile returns Ok or Err and never panics, and the empty bracket
\* list, the let with no binding, the call of a bound function with no
\* argument and the empty () each give an Err.
C30_CompileNeverPanics ==
    (lisp_pc = "done" /\ lisp_kind = "edge") =>
        /\ lisp_result.ok \/ ~lisp_result.panic
        /\ lisp_arg.text \in {"[]", "(let () #01)", "(let ((f (lambda () #01))) (f))", "()"}
               => ~lisp_result.ok

\* Which of the texts panic, and where.
EdgePanics ==
    (lisp_pc = "done" /\ lisp_kind = "edge") =>
        /\ lisp_arg.text \in {"[]", "[#01 []]"} =>
               lisp_result = CompilePanic("vec_to_tree cannot take an empty list")
        /\ lisp_arg.text \in {"(let () #01)", "(let ((f (lambda () #01))) (f))"} =>
               lisp_result = CompilePanic("assertion failed: !ns.is_empty()")
        /\ lisp_arg.text = "(let ((x #01)) (axis x #00))" =>
               lisp_result = CompilePanic("argument of integer logarithm must be positive")
        /\ lisp_arg.text = "()" =>
               lisp_result = CompileErr("Tried to compile empty parent node ()")
        /\ lisp_arg.text \in {"y", "(#01)", "(g)", "(let (x) x)", "(lambda x x)"} =>
               ~lisp_result.ok /\ ~lisp_result.panic
        /\ lisp_arg.text \in {"[#01 #02]", "(let ((f (lambda (p) p))) (f #07))"} =>
               lisp_result.ok

====
